---- MODULE Spec2Model ----
(***************************************************************************)
(* Model of the metric-aggregation engine of singularity-code-analysis:    *)
(* the Stats protocol of the cognitive, cyclomatic and exit metrics        *)
(* (src/src/metrics/{cognitive,cyclomatic,exit}.rs), the Halstead maps and  *)
(* formulas (src/src/metrics/halstead.rs), the Python computators, the     *)
(* space-tree walk that drives them, and the analyzer facade               *)
(* (src/src/code_analyzer.rs).                                             *)
(*                                                                         *)
(* Nine specifications share the module:                                  *)
(*   Spec          the depth-first walk of one Python syntax tree,         *)
(*   SpecCond      the same walk over one function of ifs and conditions,  *)
(*   SpecClause    the same walk over one function of ifs, tries and their *)
(*                 clauses,                                                *)
(*   SpecStats     the Stats operations applied to three Stats values,     *)
(*   SpecAnalyzer  requests to analyze_language / analyze_file,            *)
(*   SpecSiblings  the cyclomatic computators of five languages applied to *)
(*                 the children of one node, in order,                     *)
(*   SpecJumps     the Rust and Java cognitive computators applied to the  *)
(*                 statements of one block, in order,                      *)
(*   SpecLanguages language identifiers resolved with language_from_str    *)
(*                 and analyses requested for a language,                  *)
(*   SpecCount     worker threads running the Count callback on one file   *)
(*                 each, sharing one Arc<Mutex<Count>>.                    *)
(***************************************************************************)
EXTENDS Integers, Sequences, FiniteSets, TLC

VARIABLES
    stack,        \* walk: the open syntax nodes, root first
    spaces,       \* walk: the open spaces (State records), root first
    nesting_map,  \* walk: node id -> (nesting, depth, lambda); ids are 1..Len
    tree,         \* walk: the syntax tree as far as it has been read, by node id
    root,         \* walk: <<the sealed root space>>, empty while walking
    sa, sb, sc,   \* stats: three metric bundles the Stats operations act on
    request,      \* analyzer: the requests served so far, in order
    outcome,      \* analyzer: what each of them returned
    effects,      \* analyzer: the work done while serving each, in order
    clauses,      \* siblings: the language, the children visited, the Stats
    results,      \* count: <<the shared Count>>, behind the mutex
    mutex,        \* count: <<the worker holding the lock>>, empty when free
    workers       \* count: per worker, its file, its position and its locals

vars == <<stack, spaces, nesting_map, tree, root, sa, sb, sc, request, outcome, effects,
          clauses, results, mutex, workers>>
walkVars == <<stack, spaces, nesting_map, tree, root>>
statsVars == <<sa, sb, sc>>
analyzerVars == <<request, outcome, effects>>
countVars == <<results, mutex, workers>>

None == "None"
Null == [k |-> "null"]

(***************************************************************************)
(* Bounds of the model.                                                    *)
(***************************************************************************)
MaxNodes == 11
MaxCondNodes == 16
MaxClauseNodes == 15
MaxDepth == 6
MaxOps == 5
MaxOwn == 2
MaxFuncs == 2
MaxRequests == 2
MaxSiblings == 7
MaxWorkers == 3

(***************************************************************************)
(* usize::MAX and f64::MAX, the initial minima.  Both stand for "larger    *)
(* than every value a walk can produce"; the number is the largest integer *)
(* the model checker represents.                                           *)
(***************************************************************************)
USIZE_MAX == 2147483647
F64_MAX == 2147483647

Min(a, b) == IF a <= b THEN a ELSE b
Max(a, b) == IF a >= b THEN a ELSE b

(***************************************************************************)
(* f64 division of two non-negative integers converted with `as f64`.      *)
(* x / 0.0 is NaN when x is 0 and +infinity otherwise; a finite quotient   *)
(* is kept exact as numerator and denominator.                             *)
(***************************************************************************)
F64Div(a, b) ==
    IF b = 0
    THEN (IF a = 0 THEN [k |-> "nan"] ELSE [k |-> "inf"])
    ELSE [k |-> "num", n |-> a, d |-> b]

F64(a) == [k |-> "num", n |-> a, d |-> 1]

\* The JSON serializer writes a non-finite f64 as null, a finite one as a number.
JsonF64(x) == IF x.k \in {"nan", "inf"} THEN Null ELSE x

\* Option<f64>: None is written as null.
JsonNone == Null

IsZero(j) == j # Null /\ j.n = 0
\* j is the number a / b
IsQuotient(j, a, b) == j # Null /\ b # 0 /\ j.n * b = a * j.d

(***************************************************************************)
(* cognitive::Stats                                                        *)
(***************************************************************************)
cognitive_default ==
    [structural |-> 0, structural_sum |-> 0, structural_min |-> USIZE_MAX,
     structural_max |-> 0, nesting |-> 0, total_space_functions |-> 1,
     boolean_seq |-> None]

\* cognitive_merge that also folds the other side's running value in.
cognitive_merge_adds_own(self, other) ==
    [self EXCEPT
        !.structural = self.structural + other.structural,
        !.structural_min = Min(self.structural_min, other.structural_min),
        !.structural_max = Max(self.structural_max, other.structural_max),
        !.structural_sum = self.structural_sum + other.structural_sum]

\* cognitive_merge taking the other side's minimum.
cognitive_merge_keeps_other_min(self, other) ==
    [self EXCEPT
        !.structural_min = other.structural_min,
        !.structural_max = Max(self.structural_max, other.structural_max),
        !.structural_sum = self.structural_sum + other.structural_sum]

cognitive_merge(self, other) ==
    [self EXCEPT
        !.structural_min = Min(self.structural_min, other.structural_min),
        !.structural_max = Max(self.structural_max, other.structural_max),
        !.structural_sum = self.structural_sum + other.structural_sum]

cognitive_sum(self) == F64(self.structural_sum)
cognitive_min(self) == F64(self.structural_min)
cognitive_max(self) == F64(self.structural_max)
cognitive_average(self) == F64Div(self.structural_sum, self.total_space_functions)

cognitive_compute_sum(self) ==
    [self EXCEPT !.structural_sum = self.structural_sum + self.structural]

cognitive_compute_minmax(self) ==
    cognitive_compute_sum(
        [self EXCEPT
            !.structural_min = Min(self.structural_min, self.structural),
            !.structural_max = Max(self.structural_max, self.structural)])

\* cognitive_finalize that drops the divisor it is given.
cognitive_finalize_keeps_default(self, total_space_functions) == self

cognitive_finalize(self, total_space_functions) ==
    [self EXCEPT !.total_space_functions = total_space_functions]

\* cognitive_serialize without the null guard of the average.
cognitive_serialize_unguarded(self) ==
    [sum |-> JsonF64(cognitive_sum(self)),
     average |-> JsonF64(cognitive_average(self)),
     min |->
        IF self.structural_min = USIZE_MAX
        THEN JsonF64(F64(0))
        ELSE JsonF64(cognitive_min(self)),
     max |-> JsonF64(cognitive_max(self))]

\* cognitive_serialize writing no minimum while none has been recorded.
cognitive_serialize_min_absent(self) ==
    [sum |-> JsonF64(cognitive_sum(self)),
     average |->
        IF self.total_space_functions <= 1 /\ self.structural_sum = 0
        THEN JsonNone
        ELSE JsonF64(cognitive_average(self)),
     min |->
        IF self.structural_min = USIZE_MAX
        THEN JsonNone
        ELSE JsonF64(cognitive_min(self)),
     max |-> JsonF64(cognitive_max(self))]

\* cognitive_serialize with the average withheld only below one function.
cognitive_serialize_guard_below_one(self) ==
    [sum |-> JsonF64(cognitive_sum(self)),
     average |->
        IF self.total_space_functions < 1 /\ self.structural_sum = 0
        THEN JsonNone
        ELSE JsonF64(cognitive_average(self)),
     min |->
        IF self.structural_min = USIZE_MAX
        THEN JsonF64(F64(0))
        ELSE JsonF64(cognitive_min(self)),
     max |-> JsonF64(cognitive_max(self))]

cognitive_serialize(self) ==
    [sum |-> JsonF64(cognitive_sum(self)),
     average |->
        IF self.total_space_functions <= 1 /\ self.structural_sum = 0
        THEN JsonNone
        ELSE JsonF64(cognitive_average(self)),
     min |->
        IF self.structural_min = USIZE_MAX
        THEN JsonF64(F64(0))
        ELSE JsonF64(cognitive_min(self)),
     max |-> JsonF64(cognitive_max(self))]

(***************************************************************************)
(* cyclomatic::Stats (its f64 fields only ever hold whole numbers)         *)
(***************************************************************************)
\* cyclomatic::Stats::default starting the own value at 0.
cyclomatic_default_from_zero ==
    [cyclomatic_sum |-> 0, cyclomatic |-> 0, n |-> 1,
     cyclomatic_max |-> 0, cyclomatic_min |-> F64_MAX]

cyclomatic_default ==
    [cyclomatic_sum |-> 0, cyclomatic |-> 1, n |-> 1,
     cyclomatic_max |-> 0, cyclomatic_min |-> F64_MAX]

\* cyclomatic_merge that leaves the sum of the other space out.
cyclomatic_merge_drops_sum(self, other) ==
    [self EXCEPT
        !.cyclomatic_max = Max(self.cyclomatic_max, other.cyclomatic_max),
        !.cyclomatic_min = Min(self.cyclomatic_min, other.cyclomatic_min),
        !.n = self.n + other.n]

cyclomatic_merge(self, other) ==
    [self EXCEPT
        !.cyclomatic_max = Max(self.cyclomatic_max, other.cyclomatic_max),
        !.cyclomatic_min = Min(self.cyclomatic_min, other.cyclomatic_min),
        !.cyclomatic_sum = self.cyclomatic_sum + other.cyclomatic_sum,
        !.n = self.n + other.n]

cyclomatic_average(self) == F64Div(self.cyclomatic_sum, self.n)

cyclomatic_compute_sum(self) ==
    [self EXCEPT !.cyclomatic_sum = self.cyclomatic_sum + self.cyclomatic]

cyclomatic_compute_minmax(self) ==
    cyclomatic_compute_sum(
        [self EXCEPT
            !.cyclomatic_max = Max(self.cyclomatic_max, self.cyclomatic),
            !.cyclomatic_min = Min(self.cyclomatic_min, self.cyclomatic)])

cyclomatic_serialize(self) ==
    [sum |-> JsonF64(F64(self.cyclomatic_sum)),
     average |-> JsonF64(cyclomatic_average(self)),
     min |-> JsonF64(F64(self.cyclomatic_min)),
     max |-> JsonF64(F64(self.cyclomatic_max))]

(***************************************************************************)
(* exit::Stats                                                             *)
(***************************************************************************)
exit_default ==
    [exit |-> 0, exit_sum |-> 0, total_space_functions |-> 1,
     exit_min |-> USIZE_MAX, exit_max |-> 0]

\* exit_merge that also folds the other side's own counter into this one's.
exit_merge_own_counter(self, other) ==
    [self EXCEPT
        !.exit = self.exit + other.exit,
        !.exit_max = Max(self.exit_max, other.exit_max),
        !.exit_min = Min(self.exit_min, other.exit_min),
        !.exit_sum = self.exit_sum + other.exit_sum]

exit_merge(self, other) ==
    [self EXCEPT
        !.exit_max = Max(self.exit_max, other.exit_max),
        !.exit_min = Min(self.exit_min, other.exit_min),
        !.exit_sum = self.exit_sum + other.exit_sum]

\* exit_average with the guard of the cognitive serializer.
exit_average_guarded(self) ==
    IF self.total_space_functions <= 1 /\ self.exit_sum = 0
    THEN [k |-> "nan"]
    ELSE F64Div(self.exit_sum, self.total_space_functions)

exit_average(self) == F64Div(self.exit_sum, self.total_space_functions)

exit_compute_sum(self) ==
    [self EXCEPT !.exit_sum = self.exit_sum + self.exit]

\* exit_compute_minmax that folds the own value into the sum only.
exit_compute_minmax_sum_only(self) == exit_compute_sum(self)

exit_compute_minmax(self) ==
    exit_compute_sum(
        [self EXCEPT
            !.exit_max = Max(self.exit_max, self.exit),
            !.exit_min = Min(self.exit_min, self.exit)])

\* exit_finalize that drops the divisor it is given.
exit_finalize_keeps_default(self, total_space_functions) == self

exit_finalize(self, total_space_functions) ==
    [self EXCEPT !.total_space_functions = total_space_functions]

exit_serialize(self) ==
    [sum |-> JsonF64(F64(self.exit_sum)),
     average |-> JsonF64(exit_average(self)),
     min |-> JsonF64(F64(self.exit_min)),
     max |-> JsonF64(F64(self.exit_max))]

(***************************************************************************)
(* halstead::HalsteadMaps: operator occurrences keyed by node-kind id and  *)
(* operand occurrences keyed by the source bytes of the token.             *)
(***************************************************************************)
EmptyMap == [x \in {} |-> 0]

\* *map.entry(k).or_insert(0) += v
MapAdd(m, k, v) ==
    IF k \in DOMAIN m THEN [m EXCEPT ![k] = @ + v] ELSE m @@ (k :> v)

RECURSIVE MapMergeKeys(_, _, _)
MapMergeKeys(m, other, keys) ==
    IF keys = {} THEN m
    ELSE LET k == CHOOSE x \in keys : TRUE
         IN MapMergeKeys(MapAdd(m, k, other[k]), other, keys \ {k})

RECURSIVE MapSumKeys(_, _)
MapSumKeys(m, keys) ==
    IF keys = {} THEN 0
    ELSE LET k == CHOOSE x \in keys : TRUE
         IN m[k] + MapSumKeys(m, keys \ {k})

\* map.values().sum()
MapSum(m) == MapSumKeys(m, DOMAIN m)
\* map.len()
MapLen(m) == Cardinality(DOMAIN m)

HalsteadMaps_new == [operators |-> EmptyMap, operands |-> EmptyMap]

\* HalsteadMaps::merge that keeps this side's count of a key both sides hold.
HalsteadMaps_merge_keeps_own(self, other) ==
    [operators |-> other.operators @@ self.operators,
     operands |-> other.operands @@ self.operands]

HalsteadMaps_merge(self, other) ==
    [operators |-> MapMergeKeys(self.operators, other.operators, DOMAIN other.operators),
     operands |-> MapMergeKeys(self.operands, other.operands, DOMAIN other.operands)]

halstead_default == [u_operators |-> 0, operators |-> 0, u_operands |-> 0, operands |-> 0]

\* HalsteadMaps::finalize adding to what the Stats already hold.
HalsteadMaps_finalize_accumulates(self, stats) ==
    [stats EXCEPT
        !.u_operators = stats.u_operators + MapLen(self.operators),
        !.operators = stats.operators + MapSum(self.operators),
        !.u_operands = stats.u_operands + MapLen(self.operands),
        !.operands = stats.operands + MapSum(self.operands)]

HalsteadMaps_finalize(self, stats) ==
    [stats EXCEPT
        !.u_operators = MapLen(self.operators),
        !.operators = MapSum(self.operators),
        !.u_operands = MapLen(self.operands),
        !.operands = MapSum(self.operands)]

\* halstead::Stats::merge is empty: the maps carry the merge.
halstead_merge(self, other) == self

(***************************************************************************)
(* The Halstead formulas, on f64 values abstracted to their class: NaN,    *)
(* +infinity, -infinity, zero, or a positive finite number (no formula     *)
(* produces a negative finite one from non-negative counts).  The IEEE     *)
(* rules that decide the class are kept: 0 * inf, 0 / 0 and inf / inf are  *)
(* NaN, x / 0 is infinite for x # 0, log2(0) is -infinity.                 *)
(***************************************************************************)
FNaN == [k |-> "nan"]
FPInf == [k |-> "pinf"]
FNInf == [k |-> "ninf"]
FZero == [k |-> "zero"]
FPos == [k |-> "pos"]

FInt(n) == IF n = 0 THEN FZero ELSE FPos

FLog2Int(n) == IF n = 0 THEN FNInf ELSE IF n = 1 THEN FZero ELSE FPos

FMul(x, y) ==
    IF x = FNaN \/ y = FNaN THEN FNaN
    ELSE IF (x = FZero /\ y \in {FPInf, FNInf}) \/ (y = FZero /\ x \in {FPInf, FNInf}) THEN FNaN
    ELSE IF x = FZero \/ y = FZero THEN FZero
    ELSE IF x = FNInf /\ y = FNInf THEN FPInf
    ELSE IF x = FNInf \/ y = FNInf THEN FNInf
    ELSE IF x = FPInf \/ y = FPInf THEN FPInf
    ELSE FPos

FDiv(x, y) ==
    IF x = FNaN \/ y = FNaN THEN FNaN
    ELSE IF x = FZero /\ y = FZero THEN FNaN
    ELSE IF x \in {FPInf, FNInf} /\ y \in {FPInf, FNInf} THEN FNaN
    ELSE IF y = FZero THEN (IF x = FNInf THEN FNInf ELSE FPInf)
    ELSE IF x = FZero \/ y \in {FPInf, FNInf} THEN FZero
    ELSE IF x \in {FPInf, FNInf} THEN x
    ELSE FPos

FAdd(x, y) ==
    IF x = FNaN \/ y = FNaN THEN FNaN
    ELSE IF (x = FPInf /\ y = FNInf) \/ (x = FNInf /\ y = FPInf) THEN FNaN
    ELSE IF x \in {FPInf, FNInf} THEN x
    ELSE IF y \in {FPInf, FNInf} THEN y
    ELSE IF x = FZero /\ y = FZero THEN FZero
    ELSE FPos

\* x.powf(2. / 3.)
FPowf23(x) == IF x = FNInf THEN FPInf ELSE x

halstead_u_operators(self) == FInt(self.u_operators)
halstead_operators(self) == FInt(self.operators)
halstead_u_operands(self) == FInt(self.u_operands)
halstead_operands(self) == FInt(self.operands)

halstead_length(self) == FInt(self.operands + self.operators)

halstead_estimated_program_length(self) ==
    FAdd(FMul(halstead_u_operators(self), FLog2Int(self.u_operators)),
         FMul(halstead_u_operands(self), FLog2Int(self.u_operands)))

halstead_purity_ratio(self) ==
    FDiv(halstead_estimated_program_length(self), halstead_length(self))

halstead_vocabulary(self) == FInt(self.u_operands + self.u_operators)

halstead_volume(self) ==
    FMul(halstead_length(self), FLog2Int(self.u_operands + self.u_operators))

\* difficulty guarded to 0 when there is no operand.
halstead_difficulty_zero_guard(self) ==
    IF self.u_operands = 0
    THEN FZero
    ELSE FDiv(FMul(FDiv(halstead_u_operators(self), FPos), halstead_operands(self)),
              halstead_u_operands(self))

halstead_difficulty(self) ==
    FDiv(FMul(FDiv(halstead_u_operators(self), FPos), halstead_operands(self)),
         halstead_u_operands(self))

halstead_level(self) == FDiv(FPos, halstead_difficulty(self))

halstead_effort(self) == FMul(halstead_difficulty(self), halstead_volume(self))

halstead_time(self) == FDiv(halstead_effort(self), FPos)

halstead_bugs(self) == FDiv(FPowf23(halstead_effort(self)), FPos)

\* The JSON serializer writes a non-finite f64 as null.
JsonClass(x) == IF x \in {FNaN, FPInf, FNInf} THEN Null ELSE x

halstead_serialize(self) ==
    [n1 |-> JsonClass(halstead_u_operators(self)),
     N1 |-> JsonClass(halstead_operators(self)),
     n2 |-> JsonClass(halstead_u_operands(self)),
     N2 |-> JsonClass(halstead_operands(self)),
     length |-> JsonClass(halstead_length(self)),
     estimated_program_length |-> JsonClass(halstead_estimated_program_length(self)),
     purity_ratio |-> JsonClass(halstead_purity_ratio(self)),
     vocabulary |-> JsonClass(halstead_vocabulary(self)),
     volume |-> JsonClass(halstead_volume(self)),
     difficulty |-> JsonClass(halstead_difficulty(self)),
     level |-> JsonClass(halstead_level(self)),
     effort |-> JsonClass(halstead_effort(self)),
     time |-> JsonClass(halstead_time(self)),
     bugs |-> JsonClass(halstead_bugs(self))]

(***************************************************************************)
(* Syntax nodes.  A node is [kind, kind_id, text]: the grammar's kind name *)
(* (what Checker and Getter match on), the language enum variant of its    *)
(* kind id (what the computators match on) and its source bytes.  The      *)
(* `lambda` keyword and the lambda expression share the kind name and      *)
(* differ in kind id.  Nodes on which every computator and every predicate *)
(* is the identity (block, parameters, ":", "(", ")") are left out of the  *)
(* trees; they would only copy their parent's entry of the nesting map.    *)
(***************************************************************************)
Node(kind, kind_id, text) == [kind |-> kind, kind_id |-> kind_id, text |-> text]

Names == {"a"}

ModuleNode == Node("module", "Module", "")
FunctionDefinitionNode == Node("function_definition", "FunctionDefinition", "")
ClassDefinitionNode == Node("class_definition", "ClassDefinition", "")
LambdaNode == Node("lambda", "Lambda", "")
IfStatementNode == Node("if_statement", "IfStatement", "")
ExpressionStatementNode == Node("expression_statement", "ExpressionStatement", "")
ReturnStatementNode == Node("return_statement", "ReturnStatement", "")
BooleanOperatorNode == Node("boolean_operator", "BooleanOperator", "")
NotOperatorNode == Node("not_operator", "NotOperator", "")
IdentifierNode(t) == Node("identifier", "Identifier", t)
\* keyword tokens
DefToken == Node("def", "Def", "def")
ClassToken == Node("class", "Class", "class")
IfToken == Node("if", "If", "if")
AndToken == Node("and", "And", "and")
OrToken == Node("or", "Or", "or")
NotToken == Node("not", "Not", "not")
ReturnToken == Node("return", "Return", "return")
LambdaToken == Node("lambda", "LambdaKeyword", "lambda")

(***************************************************************************)
(* checker.rs, getter.rs: the Python classifier and namer                  *)
(***************************************************************************)
is_func_space(node) ==
    node.kind \in {"module", "function_definition", "class_definition"}

is_func(node) == node.kind = "function_definition"

is_closure(node) == node.kind = "lambda"

get_space_kind(node) ==
    CASE node.kind = "function_definition" -> "Function"
      [] node.kind = "class_definition" -> "Class"
      [] node.kind = "module" -> "Unit"
      [] OTHER -> "Unknown"

PythonOperatorKinds ==
    {"import_statement", "import_from_statement", "assert_statement",
     "return_statement", "def", "del_statement", "raise_statement",
     "pass_statement", "break_statement", "continue_statement", "if_statement",
     "elif_clause", "else_clause", "async", "for_statement", "in",
     "while_statement", "try_statement", "except_clause", "finally_clause",
     "with_statement", "global_statement", "exec_statement", "not", "and", "or",
     "is", "yield", "await", "print_statement"}

PythonOperandKinds == {"identifier", "integer", "float", "true", "false", "none"}

get_op_type(node) ==
    IF node.kind \in PythonOperatorKinds THEN "Operator"
    ELSE IF node.kind \in PythonOperandKinds THEN "Operand"
    ELSE "Unknown"

(***************************************************************************)
(* Node navigation used by the computators.  `ancestors` is the sequence   *)
(* of the node's ancestors, root first (the open nodes of the walk).       *)
(***************************************************************************)
RECURSIVE count_from(_, _, _, _)
count_from(ancestors, i, check, stop) ==
    IF i = 0 THEN 0
    ELSE IF ancestors[i].kind_id \in stop THEN 0
    ELSE (IF ancestors[i].kind_id \in check THEN 1 ELSE 0)
         + count_from(ancestors, i - 1, check, stop)

\* Counts the ancestors whose kind is in `check`, nearest first, up to the
\* first ancestor whose kind is in `stop`.
count_specific_ancestors(ancestors, check, stop) ==
    count_from(ancestors, Len(ancestors), check, stop)

(***************************************************************************)
(* cognitive.rs: BoolSequence and the helpers of the computators           *)
(***************************************************************************)
\* BoolSequence::reset that keeps the operator.
BoolSequence_reset_keeps_operator(boolean_op) == boolean_op

BoolSequence_reset(boolean_op) == None

BoolSequence_not_operator(boolean_op, not_id) == not_id

\* eval_based_on_prev remembering the operator each time it changes.
eval_based_on_prev_stores_last(boolean_op, bool_id, structural) ==
    IF boolean_op # None /\ boolean_op = bool_id
    THEN [boolean_op |-> boolean_op, structural |-> structural]
    ELSE [boolean_op |-> bool_id, structural |-> structural + 1]

\* Returns the new cell and the new structural value.
eval_based_on_prev(boolean_op, bool_id, structural) ==
    IF boolean_op # None
    THEN IF boolean_op # bool_id
         THEN [boolean_op |-> boolean_op, structural |-> structural + 1]
         ELSE [boolean_op |-> boolean_op, structural |-> structural]
    ELSE [boolean_op |-> bool_id, structural |-> structural + 1]

RECURSIVE compute_booleans(_, _, _, _)
\* `children` are the kind ids of the node's children, in order.
compute_booleans(children, stats, typs1, typs2) ==
    IF children = <<>> THEN stats
    ELSE LET child == Head(children)
             r == eval_based_on_prev(stats.boolean_seq, child, stats.structural)
             next == IF child = typs1 \/ child = typs2
                     THEN [stats EXCEPT !.boolean_seq = r.boolean_op,
                                        !.structural = r.structural]
                     ELSE stats
         IN compute_booleans(Tail(children), next, typs1, typs2)

increment(stats) == [stats EXCEPT !.structural = stats.structural + stats.nesting + 1]

\* increment_by_one adding two.
increment_by_one_twice(stats) == [stats EXCEPT !.structural = stats.structural + 2]

\* increment_by_one weighted by the nesting level.
increment_by_one_weighted(stats) == increment(stats)

increment_by_one(stats) == [stats EXCEPT !.structural = stats.structural + 1]

\* get_nesting_from_map that never finds the parent.
get_nesting_from_map_default(ancestors, map) == <<0, 0, 0>>

\* The triple stored for the parent, (0, 0, 0) when there is none.
get_nesting_from_map(ancestors, map) ==
    IF ancestors # <<>>
    THEN LET parent == ancestors[Len(ancestors)]
         IN IF parent.id \in DOMAIN map THEN map[parent.id] ELSE <<0, 0, 0>>
    ELSE <<0, 0, 0>>

\* increment_function_depth that does not look for an enclosing function.
increment_function_depth_always(depth, ancestors, stop) == depth + 1

increment_function_depth(depth, ancestors, stop) ==
    IF \E i \in 1..Len(ancestors) : ancestors[i].kind_id = stop
    THEN depth + 1
    ELSE depth

\* increase_nesting that charges the construct without its nesting.
increase_nesting_flat(stats, nesting, depth, lambda) ==
    LET s1 == increment_by_one([stats EXCEPT !.nesting = nesting + depth + lambda])
    IN [stats |-> [s1 EXCEPT !.boolean_seq = BoolSequence_reset(s1.boolean_seq)],
        nesting |-> nesting + 1]

\* increase_nesting that leaves the lambda level out of the cost.
increase_nesting_without_lambda(stats, nesting, depth, lambda) ==
    LET s1 == increment([stats EXCEPT !.nesting = nesting + depth])
    IN [stats |-> [s1 EXCEPT !.boolean_seq = BoolSequence_reset(s1.boolean_seq)],
        nesting |-> nesting + 1]

\* Returns the stats and the node's nesting.
increase_nesting(stats, nesting, depth, lambda) ==
    LET s1 == increment([stats EXCEPT !.nesting = nesting + depth + lambda])
    IN [stats |-> [s1 EXCEPT !.boolean_seq = BoolSequence_reset(s1.boolean_seq)],
        nesting |-> nesting + 1]

(***************************************************************************)
(* <PythonCode as Cognitive>::compute.  `children` are the kind ids of the *)
(* node's children.  Returns the stats and the triple inserted for the     *)
(* node.                                                                   *)
(***************************************************************************)
python_cognitive_compute(node, children, ancestors, stats, map) ==
    LET t == get_nesting_from_map(ancestors, map)
        nesting == t[1]
        depth == t[2]
        lambda == t[3]
        id == node.kind_id
    IN
    IF id \in {"IfStatement", "ForStatement", "WhileStatement", "ConditionalExpression"}
    THEN LET r == increase_nesting(stats, nesting, depth, lambda)
         IN [stats |-> r.stats, triple |-> <<r.nesting, depth, lambda>>]
    ELSE IF id = "ElifClause"
    THEN LET s1 == increment_by_one(stats)
         IN [stats |-> [s1 EXCEPT !.boolean_seq = BoolSequence_reset(s1.boolean_seq)],
             triple |-> t]
    ELSE IF id \in {"ElseClause", "FinallyClause"}
    THEN [stats |-> increment_by_one(stats), triple |-> t]
    ELSE IF id = "ExceptClause"
    THEN [stats |-> increment(stats), triple |-> <<nesting + 1, depth, lambda>>]
    ELSE IF id \in {"ExpressionList", "ExpressionStatement", "Tuple"}
    THEN [stats |-> [stats EXCEPT !.boolean_seq = BoolSequence_reset(stats.boolean_seq)],
          triple |-> t]
    ELSE IF id = "NotOperator"
    THEN [stats |-> [stats EXCEPT
                        !.boolean_seq = BoolSequence_not_operator(stats.boolean_seq, id)],
          triple |-> t]
    ELSE IF id = "BooleanOperator"
    THEN LET s1 ==
                IF count_specific_ancestors(ancestors, {"BooleanOperator"}, {"Lambda"}) = 0
                THEN [stats EXCEPT !.structural =
                        stats.structural
                        + count_specific_ancestors(ancestors, {"Lambda"},
                            {"ExpressionList", "IfStatement", "ForStatement",
                             "WhileStatement"})]
                ELSE stats
         IN [stats |-> compute_booleans(children, s1, "And", "Or"), triple |-> t]
    ELSE IF id = "Lambda"
    THEN [stats |-> stats, triple |-> <<nesting, depth, lambda + 1>>]
    ELSE IF id = "FunctionDefinition"
    THEN [stats |-> stats,
          triple |-> <<nesting,
                       increment_function_depth(depth, ancestors, "FunctionDefinition"),
                       lambda>>]
    ELSE [stats |-> stats, triple |-> t]

(***************************************************************************)
(* <PythonCode as Cyclomatic>::compute, <PythonCode as Exit>::compute,     *)
(* compute_halstead                                                        *)
(***************************************************************************)
\* Whether the node's parent is one of `typs` and the parent of that one is
\* one of `typ`: an `else` keyword in the else clause of a loop.
has_ancestors(ancestors, typ, typs) ==
    LET n == Len(ancestors)
    IN n >= 2 /\ ancestors[n].kind_id \in typs /\ ancestors[n - 1].kind_id \in typ

python_cyclomatic_compute(node, ancestors, stats) ==
    IF node.kind_id \in {"If", "Elif", "For", "While", "Except", "With", "Assert",
                         "And", "Or"}
    THEN [stats EXCEPT !.cyclomatic = stats.cyclomatic + 1]
    ELSE IF node.kind_id = "Else"
            /\ has_ancestors(ancestors, {"ForStatement", "WhileStatement"},
                             {"ElseClause"})
    THEN [stats EXCEPT !.cyclomatic = stats.cyclomatic + 1]
    ELSE stats

python_exit_compute(node, stats) ==
    IF node.kind_id = "ReturnStatement"
    THEN [stats EXCEPT !.exit = stats.exit + 1]
    ELSE stats

get_id(node) == node.text

compute_halstead(node, halstead_maps) ==
    IF get_op_type(node) = "Operator"
    THEN [halstead_maps EXCEPT !.operators = MapAdd(@, node.kind_id, 1)]
    ELSE IF get_op_type(node) = "Operand"
    THEN [halstead_maps EXCEPT !.operands = MapAdd(@, get_id(node), 1)]
    ELSE halstead_maps

(***************************************************************************)
(* The space-tree builder.  A walk state w is [stack, spaces, nesting_map, *)
(* tree, root]; the operators below are the steps of the depth-first       *)
(* traversal.  tree[i] is node i with the id of its parent (0 for the      *)
(* root); ids follow the order of the visits, which is source order.        *)
(***************************************************************************)
\* The divisor of the averages: "the total number of functions/closures in
\* a space", counted with the classifier's is_func and is_closure.
nom_compute(node, nom_total) ==
    nom_total + (IF is_func(node) THEN 1 ELSE 0) + (IF is_closure(node) THEN 1 ELSE 0)

\* A fresh State for the space a node opens.
NewSpace(node, id) ==
    [node |-> id, kind |-> get_space_kind(node),
     cognitive |-> cognitive_default, cyclomatic |-> cyclomatic_default,
     nexits |-> exit_default, halstead_maps |-> HalsteadMaps_new,
     halstead |-> halstead_default, nom_total |-> 0, spaces |-> <<>>]

\* Every metric computator runs on the node, in the innermost open space.
compute_metrics(state, node, children, ancestors, map) ==
    [state EXCEPT
        !.cognitive = python_cognitive_compute(node, children, ancestors, @, map).stats,
        !.cyclomatic = python_cyclomatic_compute(node, ancestors, @),
        !.nexits = python_exit_compute(node, @),
        !.halstead_maps = compute_halstead(node, @),
        !.nom_total = nom_compute(node, @)]

\* Visit a node: open its space if it opens one, run the computators, store
\* its triple, and make it the innermost open node.
visit_node(w, node, children) ==
    LET id == Len(w.nesting_map) + 1
        opened == IF is_func_space(node)
                  THEN Append(w.spaces, NewSpace(node, id))
                  ELSE w.spaces
        top == Len(opened)
        cog == python_cognitive_compute(node, children, w.stack,
                                        opened[top].cognitive, w.nesting_map)
    IN [w EXCEPT
          !.stack = Append(w.stack,
                       [id |-> id, kind |-> node.kind, kind_id |-> node.kind_id,
                        children |-> children, nchild |-> 0]),
          !.spaces = [opened EXCEPT ![top] =
                        compute_metrics(opened[top], node, children, w.stack,
                                        w.nesting_map)],
          !.nesting_map = Append(w.nesting_map, cog.triple),
          !.tree = Append(w.tree,
                      [node |-> node,
                       parent |-> IF w.stack = <<>> THEN 0
                                  ELSE w.stack[Len(w.stack)].id])]

\* Seal a space: fold its own value into sum/min/max, project the Halstead
\* maps, set the divisor of the averages.
finalize_space(state) ==
    [state EXCEPT
        !.cyclomatic = cyclomatic_compute_minmax(@),
        !.nexits = exit_finalize(exit_compute_minmax(@), state.nom_total),
        !.cognitive = cognitive_finalize(cognitive_compute_minmax(@), state.nom_total),
        !.halstead = HalsteadMaps_finalize(state.halstead_maps, @)]

\* Fold a sealed child space into its parent's running State.
merge_space(parent, child) ==
    [parent EXCEPT
        !.cognitive = cognitive_merge(@, child.cognitive),
        !.cyclomatic = cyclomatic_merge(@, child.cyclomatic),
        !.nexits = exit_merge(@, child.nexits),
        !.halstead = halstead_merge(@, child.halstead),
        !.halstead_maps = HalsteadMaps_merge(@, child.halstead_maps),
        !.nom_total = @ + child.nom_total,
        !.spaces = Append(@, child)]

\* Leave the innermost open node; `counted` tells whether it counts as a
\* child of its parent's production (keyword tokens do not).
leave_node(w, counted) ==
    LET n == Len(w.stack)
        node == w.stack[n]
        m == Len(w.spaces)
        closes == m > 0 /\ w.spaces[m].node = node.id
        sealed == finalize_space(w.spaces[m])
        rest == SubSeq(w.stack, 1, n - 1)
    IN [w EXCEPT
          !.stack = IF n > 1 /\ counted
                    THEN [rest EXCEPT ![n - 1].nchild = @ + 1]
                    ELSE rest,
          !.spaces = IF ~closes THEN w.spaces
                     ELSE IF m = 1 THEN <<>>
                     ELSE [SubSeq(w.spaces, 1, m - 1) EXCEPT
                             ![m - 1] = merge_space(@, sealed)],
          !.root = IF closes /\ m = 1 THEN <<sealed>> ELSE w.root]

visit_token(w, node) == leave_node(visit_node(w, node, <<>>), FALSE)

RECURSIVE visit_tokens(_, _)
visit_tokens(w, tokens) ==
    IF tokens = <<>> THEN w
    ELSE visit_tokens(visit_token(w, Head(tokens)), Tail(tokens))

(***************************************************************************)
(* The shape of the trees the parser hands to the walk (Python grammar).   *)
(***************************************************************************)
StatementKinds ==
    {"function_definition", "class_definition", "if_statement",
     "expression_statement", "return_statement", "try_statement",
     "pass_statement"}
ClauseKinds == {"elif_clause", "else_clause", "except_clause", "finally_clause"}
ExpressionKinds ==
    {"boolean_operator", "not_operator", "lambda", "identifier",
     "conditional_expression"}

\* The keyword and name tokens that open a node's production.
LeadingTokens(node) ==
    CASE node.kind_id = "FunctionDefinition" -> <<DefToken, IdentifierNode("f")>>
      [] node.kind_id = "ClassDefinition" -> <<ClassToken, IdentifierNode("C")>>
      [] node.kind_id = "IfStatement" -> <<IfToken>>
      [] node.kind_id = "ReturnStatement" -> <<ReturnToken>>
      [] node.kind_id = "Lambda" -> <<LambdaToken>>
      [] node.kind_id = "NotOperator" -> <<NotToken>>
      [] node.kind_id = "ElifClause" -> <<Node("elif", "Elif", "elif")>>
      [] node.kind_id = "ElseClause" -> <<Node("else", "Else", "else")>>
      [] node.kind_id = "ExceptClause" -> <<Node("except", "Except", "except")>>
      [] OTHER -> <<>>

\* The token that follows the n-th child of an open node.
TokenAfterChild(open) ==
    IF open.kind_id = "BooleanOperator" /\ open.nchild = 1
    THEN (IF open.children[1] = "And" THEN <<AndToken>> ELSE <<OrToken>>)
    ELSE IF open.kind_id = "ConditionalExpression" /\ open.nchild = 1
    THEN <<IfToken>>
    ELSE IF open.kind_id = "ConditionalExpression" /\ open.nchild = 2
    THEN <<Node("else", "Else", "else")>>
    ELSE <<>>

\* Whether a node of kind `kind` may be the next child of the open node.
CanEnter(open, kind) ==
    CASE open.kind \in {"module", "function_definition", "class_definition"} ->
            kind \in StatementKinds
      [] open.kind = "if_statement" ->
            IF open.nchild = 0 THEN kind \in ExpressionKinds
            ELSE \/ kind \in StatementKinds
                 \/ open.nchild >= 2 /\ kind \in {"elif_clause", "else_clause"}
      [] open.kind = "elif_clause" ->
            IF open.nchild = 0 THEN kind \in ExpressionKinds ELSE kind \in StatementKinds
      [] open.kind \in {"else_clause", "except_clause", "finally_clause"} ->
            kind \in StatementKinds
      [] open.kind = "try_statement" ->
            \/ kind \in StatementKinds
            \/ open.nchild >= 1 /\ kind \in {"except_clause", "finally_clause"}
      [] open.kind = "expression_statement" -> open.nchild = 0 /\ kind \in ExpressionKinds
      [] open.kind = "return_statement" -> open.nchild = 0 /\ kind \in ExpressionKinds
      [] open.kind = "boolean_operator" -> open.nchild < 2 /\ kind \in ExpressionKinds
      [] open.kind = "conditional_expression" ->
            open.nchild < 3 /\ kind \in ExpressionKinds
      [] open.kind \in {"not_operator", "lambda"} ->
            open.nchild = 0 /\ kind \in ExpressionKinds
      [] OTHER -> FALSE

\* Whether the open node's production is complete.
CanLeave(open) ==
    CASE open.kind = "module" -> TRUE
      [] open.kind \in {"function_definition", "class_definition"} -> open.nchild >= 1
      [] open.kind \in {"if_statement", "elif_clause", "try_statement"} ->
            open.nchild >= 2
      [] open.kind \in {"else_clause", "except_clause", "finally_clause"} ->
            open.nchild >= 1
      [] open.kind = "expression_statement" -> open.nchild = 1
      [] open.kind = "return_statement" -> TRUE
      [] open.kind = "boolean_operator" -> open.nchild = 2
      [] open.kind = "conditional_expression" -> open.nchild = 3
      [] open.kind \in {"not_operator", "lambda"} -> open.nchild = 1
      [] OTHER -> TRUE

\* The nodes the walk may enter and the kind ids of their children that the
\* computators look at.
InnerNodes ==
    {[node |-> FunctionDefinitionNode, children |-> <<>>],
     [node |-> ClassDefinitionNode, children |-> <<>>],
     [node |-> IfStatementNode, children |-> <<>>],
     [node |-> ExpressionStatementNode, children |-> <<>>],
     [node |-> ReturnStatementNode, children |-> <<>>],
     [node |-> BooleanOperatorNode, children |-> <<"And">>],
     [node |-> BooleanOperatorNode, children |-> <<"Or">>],
     [node |-> NotOperatorNode, children |-> <<>>],
     [node |-> LambdaNode, children |-> <<>>],
     [node |-> Node("conditional_expression", "ConditionalExpression", ""),
      children |-> <<>>]}

LeafNodes == {IdentifierNode(t) : t \in Names}

W ==
    [stack |-> stack, spaces |-> spaces, nesting_map |-> nesting_map,
     tree |-> tree, root |-> root]

SetW(w) ==
    /\ stack' = w.stack
    /\ spaces' = w.spaces
    /\ nesting_map' = w.nesting_map
    /\ tree' = w.tree
    /\ root' = w.root

\* After a child is left, the token that follows it in the parent is visited.
after_child(w) ==
    IF w.stack = <<>> THEN w
    ELSE visit_tokens(w, TokenAfterChild(w.stack[Len(w.stack)]))

Room(k, max) == Len(nesting_map) + k <= max

\* The walk starts at the root of the tree.
EnterRoot ==
    /\ stack = <<>> /\ root = <<>> /\ nesting_map = <<>>
    /\ SetW(visit_node(W, ModuleNode, <<>>))
    /\ UNCHANGED <<statsVars, analyzerVars, clauses, countVars>>

\* The walk descends into an inner node and visits the tokens that open it.
Enter(n, max) ==
    /\ stack # <<>>
    /\ Len(stack) < MaxDepth
    /\ Room(1 + Len(LeadingTokens(n.node)) + Len(n.children), max)
    /\ CanEnter(stack[Len(stack)], n.node.kind)
    /\ SetW(visit_tokens(visit_node(W, n.node, n.children), LeadingTokens(n.node)))
    /\ UNCHANGED <<statsVars, analyzerVars, clauses, countVars>>

\* The walk visits a leaf and returns to its parent.
Leaf(node, max) ==
    /\ stack # <<>>
    /\ Room(1, max)
    /\ CanEnter(stack[Len(stack)], node.kind)
    /\ SetW(after_child(leave_node(visit_node(W, node, <<>>), TRUE)))
    /\ UNCHANGED <<statsVars, analyzerVars, clauses, countVars>>

\* The walk has visited every child of the innermost open node and returns
\* to its parent, closing the space the node opened.
Leave ==
    /\ stack # <<>>
    /\ CanLeave(stack[Len(stack)])
    /\ SetW(after_child(leave_node(W, TRUE)))
    /\ UNCHANGED <<statsVars, analyzerVars, clauses, countVars>>

WalkInit ==
    /\ stack = <<>> /\ spaces = <<>> /\ nesting_map = <<>> /\ tree = <<>>
    /\ root = <<>>

StatsIdle == sa = <<>> /\ sb = <<>> /\ sc = <<>>
AnalyzerIdle == request = <<>> /\ outcome = <<>> /\ effects = <<>>
SiblingsIdle == clauses = <<>>
CountIdle == results = <<>> /\ mutex = <<>> /\ workers = <<>>

Init == WalkInit /\ StatsIdle /\ AnalyzerIdle /\ SiblingsIdle /\ CountIdle

Next ==
    \/ EnterRoot
    \/ \E n \in InnerNodes : Enter(n, MaxNodes)
    \/ \E node \in LeafNodes : Leaf(node, MaxNodes)
    \/ Leave

Spec == Init /\ [][Next]_vars

(***************************************************************************)
(* SpecCond: the same walk over the trees of one function whose statements *)
(* are if statements and returns, with conditions built from boolean       *)
(* operators; fewer kinds of nodes, so longer conditions and deeper        *)
(* nesting are within reach.                                               *)
(***************************************************************************)
CondNodes ==
    {n \in InnerNodes :
        n.node.kind_id \in {"FunctionDefinition", "IfStatement", "ReturnStatement",
                            "BooleanOperator"}}

NextCond ==
    \/ EnterRoot
    \/ \E n \in CondNodes :
          /\ n.node.kind_id = "FunctionDefinition" => Len(spaces) = 1
          /\ Enter(n, MaxCondNodes)
    \/ Leaf(IdentifierNode("a"), MaxCondNodes)
    \/ Leave

SpecCond == Init /\ [][NextCond]_vars

(***************************************************************************)
(* SpecClause: one function whose body is made of if statements with      *)
(* their elif and else clauses and try statements with their except and    *)
(* finally clauses.                                                        *)
(***************************************************************************)
ClauseNodes ==
    {[node |-> n, children |-> <<>>] :
        n \in {FunctionDefinitionNode, IfStatementNode,
               Node("try_statement", "TryStatement", ""),
               Node("elif_clause", "ElifClause", ""),
               Node("else_clause", "ElseClause", ""),
               Node("except_clause", "ExceptClause", ""),
               Node("finally_clause", "FinallyClause", "")}}

\* The kind of the last child visited under the innermost open node.
LastChildKind ==
    LET open == stack[Len(stack)].id
        kids == {t \in 1..Len(tree) : tree[t].parent = open /\ tree[t].node.text = ""}
    IN IF kids = {} THEN "" ELSE tree[CHOOSE t \in kids : \A u \in kids : u <= t].node.kind

\* Clauses follow the statements of the body; nothing follows an else or a
\* finally clause.
ClauseOrder(kind) ==
    /\ LastChildKind \notin {"else_clause", "finally_clause"}
    /\ LastChildKind \in ClauseKinds => kind \in ClauseKinds

NextClause ==
    \/ EnterRoot
    \/ \E n \in ClauseNodes :
          /\ stack # <<>>
          /\ IF n.node.kind_id = "FunctionDefinition" THEN Len(tree) = 1
             ELSE Len(spaces) = 2
          /\ ClauseOrder(n.node.kind)
          /\ Enter(n, MaxClauseNodes)
    \/ \E l \in {IdentifierNode("a"), Node("pass_statement", "PassStatement", "")} :
          /\ stack # <<>> /\ Len(spaces) = 2
          /\ ClauseOrder(l.kind)
          /\ Leaf(l, MaxClauseNodes)
    \/ /\ stack # <<>>
       /\ stack[Len(stack)].kind = "try_statement" => LastChildKind \in ClauseKinds
       /\ Leave

SpecClause == Init /\ [][NextClause]_vars

(***************************************************************************)
(* SpecStats: the Stats operations on three metric bundles.  A bundle      *)
(* holds one Stats per metric, as a space does; the actions are the        *)
(* operations the computators and the builder apply to Stats values: a     *)
(* computator raises a running value, a space being closed calls           *)
(* compute_minmax and finalize, a closed space is merged into another.     *)
(* `ops` steps are taken at most.                                          *)
(***************************************************************************)
\* `total` is the divisor the bundle was closed with, `nspace` the number of
\* spaces it stands for: itself and those of the bundles folded into it.
Bundle(cognitive, cyclomatic, nexits, sealed, total, nspace, ops) ==
    [cognitive |-> cognitive, cyclomatic |-> cyclomatic, nexits |-> nexits,
     sealed |-> sealed, total |-> total, nspace |-> nspace, ops |-> ops]

NewBundle ==
    Bundle(cognitive_default, cyclomatic_default, exit_default, FALSE, 0, 1, 0)

Metrics == {"cognitive", "cyclomatic", "nexits"}

StatsOps == sa[1].ops + sb[1].ops + sc[1].ops

\* One of the three bundles, by name.
Get(x) == IF x = "a" THEN sa[1] ELSE IF x = "b" THEN sb[1] ELSE sc[1]

Put(x, b) ==
    /\ sa' = IF x = "a" THEN <<b>> ELSE sa
    /\ sb' = IF x = "b" THEN <<b>> ELSE sb
    /\ sc' = IF x = "c" THEN <<b>> ELSE sc

\* A computator counts one more in the running value of one metric.
StatsCompute(x, m) ==
    /\ StatsOps < MaxOps
    /\ ~Get(x).sealed
    /\ LET b == Get(x) IN
       /\ (IF m = "cognitive" THEN b.cognitive.structural
           ELSE IF m = "cyclomatic" THEN b.cyclomatic.cyclomatic - 1
           ELSE b.nexits.exit) < MaxOwn
       /\ Put(x, [b EXCEPT
                !.cognitive = IF m = "cognitive" THEN increment_by_one(@) ELSE @,
                !.cyclomatic = IF m = "cyclomatic"
                               THEN [@ EXCEPT !.cyclomatic = @ + 1] ELSE @,
                !.nexits = IF m = "nexits" THEN [@ EXCEPT !.exit = @ + 1] ELSE @,
                !.ops = @ + 1])
    /\ UNCHANGED <<walkVars, analyzerVars, clauses, countVars>>

\* The space is closed: compute_minmax, then finalize with the divisor.
StatsSeal(x, total) ==
    /\ StatsOps < MaxOps
    /\ ~Get(x).sealed
    /\ LET b == Get(x) IN
       Put(x, [b EXCEPT
                !.cognitive = cognitive_finalize(cognitive_compute_minmax(@), total),
                !.cyclomatic = cyclomatic_compute_minmax(@),
                !.nexits = exit_finalize(exit_compute_minmax(@), total),
                !.sealed = TRUE,
                !.total = total,
                !.ops = @ + 1])
    /\ UNCHANGED <<walkVars, analyzerVars, clauses, countVars>>

\* A closed bundle is merged into one that is still running.
StatsMerge(x, y) ==
    /\ StatsOps < MaxOps
    /\ x # y
    /\ ~Get(x).sealed
    /\ Get(y).sealed
    /\ LET b == Get(x) IN
       Put(x, [b EXCEPT
                !.cognitive = cognitive_merge(@, Get(y).cognitive),
                !.cyclomatic = cyclomatic_merge(@, Get(y).cyclomatic),
                !.nexits = exit_merge(@, Get(y).nexits),
                !.nspace = @ + Get(y).nspace,
                !.ops = @ + 1])
    /\ UNCHANGED <<walkVars, analyzerVars, clauses, countVars>>

StatsInit == sa = <<NewBundle>> /\ sb = <<NewBundle>> /\ sc = <<NewBundle>>

InitStats == WalkInit /\ StatsInit /\ AnalyzerIdle /\ SiblingsIdle /\ CountIdle

NextStats ==
    \/ \E x \in {"a", "b", "c"}, m \in Metrics : StatsCompute(x, m)
    \/ \E x \in {"a", "b", "c"}, total \in 0..MaxFuncs : StatsSeal(x, total)
    \/ \E x, y \in {"a", "b", "c"} : StatsMerge(x, y)

SpecStats == InitStats /\ [][NextStats]_vars

(***************************************************************************)
(* What the tree says, read off the log of the walk: the ground truth the  *)
(* metrics of the spaces are compared with.                                *)
(***************************************************************************)
NodeIds == 1..Len(tree)

RECURSIVE SpaceOf(_)
\* The node that opened the innermost space containing node t.
SpaceOf(t) ==
    IF is_func_space(tree[t].node) \/ tree[t].parent = 0
    THEN t
    ELSE SpaceOf(tree[t].parent)

RECURSIVE Within(_, _)
\* Whether node t lies in the subtree of node p.
Within(t, p) == t = p \/ (tree[t].parent # 0 /\ Within(tree[t].parent, p))

RECURSIVE IfDepth(_)
\* The number of if statements that enclose node t.
IfDepth(t) ==
    IF tree[t].parent = 0 THEN 0
    ELSE (IF tree[tree[t].parent].node.kind_id = "IfStatement" THEN 1 ELSE 0)
         + IfDepth(tree[t].parent)

RECURSIVE SpacesOf(_)
\* A closed space and every space nested in it.
SpacesOf(s) == {s} \cup UNION {SpacesOf(s.spaces[i]) : i \in 1..Len(s.spaces)}

\* Every space that has been closed so far.
ClosedSpaces ==
    UNION {SpacesOf(root[i]) : i \in 1..Len(root)}
    \cup UNION {UNION {SpacesOf(spaces[i].spaces[j]) : j \in 1..Len(spaces[i].spaces)} :
                  i \in 1..Len(spaces)}

OpenSpaces == {spaces[i] : i \in 1..Len(spaces)}

\* The nodes visited directly in the space opened by node p.
OwnNodes(p) == {t \in NodeIds : SpaceOf(t) = p}
\* The nodes of the space opened by node p and of all spaces nested in it.
SubtreeNodes(p) == {t \in NodeIds : Within(t, p)}

RECURSIVE SumOfIfCosts(_)
\* The sum over the nodes of S of the number of enclosing ifs plus one.
SumOfIfCosts(S) ==
    IF S = {} THEN 0
    ELSE LET x == CHOOSE y \in S : TRUE IN (IfDepth(x) + 1) + SumOfIfCosts(S \ {x})

(***************************************************************************)
(* Properties of the walk (Spec)                                           *)
(***************************************************************************)
HasFunctionOrClosure(s) ==
    \E t \in SubtreeNodes(s.node) : is_func(tree[t].node) \/ is_closure(tree[t].node)

C5_HalsteadUndefinedIsNull ==
    \A s \in ClosedSpaces :
        LET h == s.halstead
            j == halstead_serialize(h)
        IN
        /\ h.u_operands = 0 =>
              /\ j.difficulty = Null /\ j.level = Null /\ j.effort = Null
              /\ j.time = Null /\ j.bugs = Null
        /\ h.operators + h.operands = 0 => j.purity_ratio = Null
        /\ halstead_difficulty(h) = FZero => j.level = Null

\* A closed space with operators and no operand.
C5_Witness ==
    \E s \in ClosedSpaces :
        /\ s.halstead.u_operands = 0 /\ s.halstead.u_operators > 0
        /\ halstead_serialize(s.halstead).difficulty = Null

\* C8: the own exit counter of every space, open or closed, is the number
\* of return statements whose innermost enclosing space it is; a return in
\* a nested function is in no enclosing space's own counter.
C8_ExitCountsInnermostSpace ==
    \A s \in ClosedSpaces \cup OpenSpaces :
        s.nexits.exit =
            Cardinality({t \in OwnNodes(s.node) : tree[t].node.kind_id = "ReturnStatement"})

\* A function that returns, nested in a function that does not.
C8_Witness ==
    \E s \in ClosedSpaces :
        /\ s.kind = "Function" /\ s.nexits.exit = 0 /\ Len(s.spaces) = 1
        /\ s.spaces[1].kind = "Function" /\ s.spaces[1].nexits.exit = 1
        /\ s.nexits.exit_sum = 1

\* C9: for every closed space n1 and N1 are the number of distinct kind ids
\* and the number of occurrences of the operator nodes, n2 and N2 the
\* number of distinct texts and the number of occurrences of the operand
\* nodes, over the space and all the spaces nested in it.
C9_HalsteadCountsOverSubtree ==
    \A s \in ClosedSpaces :
        LET operators == {t \in SubtreeNodes(s.node) : get_op_type(tree[t].node) = "Operator"}
            operands == {t \in SubtreeNodes(s.node) : get_op_type(tree[t].node) = "Operand"}
        IN
        /\ s.halstead.u_operators = Cardinality({tree[t].node.kind_id : t \in operators})
        /\ s.halstead.operators = Cardinality(operators)
        /\ s.halstead.u_operands = Cardinality({tree[t].node.text : t \in operands})
        /\ s.halstead.operands = Cardinality(operands)

\* The closed root over two nested functions of the same name: the name
\* occurs once in each of the two spaces and is one operand of the root.
C9_Witness ==
    /\ root # <<>>
    /\ Len(root[1].spaces) = 1 /\ Len(root[1].spaces[1].spaces) = 1
    /\ \E t, u \in NodeIds :
          /\ SpaceOf(t) # SpaceOf(u)
          /\ tree[t].node = IdentifierNode("f") /\ tree[u].node = IdentifierNode("f")
    /\ root[1].halstead.operands >= 2
    /\ root[1].halstead.u_operands < root[1].halstead.operands

NoSpaceOpened == \A t \in NodeIds : t # 1 => ~is_func_space(tree[t].node)


StatsFields == {"sum", "average", "min", "max"}

HalsteadFields ==
    {"n1", "N1", "n2", "N2", "length", "estimated_program_length", "purity_ratio",
     "vocabulary", "volume", "difficulty", "level", "effort", "time", "bugs"}

\* Whether the serialized Stats j has exactly the fields sum, average, min
\* and max, none of them null but possibly the average.
FourFieldsAverageNullable(j) ==
    /\ DOMAIN j = StatsFields
    /\ j.sum # Null /\ j.min # Null /\ j.max # Null

\* C11 as the code has it: the cognitive, cyclomatic and exit Stats of
\* every space, open or closed, serialize as exactly the four fields sum,
\* average, min and max, of which only the average may be null; the
\* Halstead Stats serialize as fourteen fields of their own, the four
\* counts and the length and vocabulary never null.
C11_SerializedFields ==
    \A s \in ClosedSpaces \cup OpenSpaces :
        /\ FourFieldsAverageNullable(cognitive_serialize(s.cognitive))
        /\ FourFieldsAverageNullable(cyclomatic_serialize(s.cyclomatic))
        /\ FourFieldsAverageNullable(exit_serialize(s.nexits))
        /\ LET h == halstead_serialize(s.halstead)
           IN /\ DOMAIN h = HalsteadFields
              /\ \A f \in {"n1", "N1", "n2", "N2", "length", "vocabulary"} : h[f] # Null

\* A closed space whose cognitive and exit averages and Halstead level are
\* null, inside an open one that has recorded no minimum yet.
C11_Witness ==
    /\ \E s \in ClosedSpaces :
          /\ cognitive_serialize(s.cognitive).average = Null
          /\ exit_serialize(s.nexits).average = Null
          /\ halstead_serialize(s.halstead).level = Null
    /\ \E s \in OpenSpaces : s.cognitive.structural_min = USIZE_MAX

\* C11 as the specification states it: every Stats of the bundle, the
\* Halstead Stats included, serializes as exactly sum, average, min, max.
C11_FourFieldsAsStated ==
    \A s \in ClosedSpaces \cup OpenSpaces :
        /\ FourFieldsAverageNullable(cognitive_serialize(s.cognitive))
        /\ FourFieldsAverageNullable(cyclomatic_serialize(s.cyclomatic))
        /\ FourFieldsAverageNullable(exit_serialize(s.nexits))
        /\ DOMAIN halstead_serialize(s.halstead) = StatsFields


\* The kind ids of the decision points of Python.
DecisionKinds ==
    {"If", "Elif", "For", "While", "Except", "With", "Assert", "And", "Or", "Else"}

HasDecision(S) == \E t \in S : tree[t].node.kind_id \in DecisionKinds

\* C12: a space none of whose own nodes is a decision node has the
\* cyclomatic value 1, while it is open and once it is closed; a closed
\* space with no decision node in its whole subtree has min 1, max 1, and
\* as sum the number of spaces of the subtree, so its average is 1.
C12_CyclomaticBaseIsOne ==
    /\ \A s \in ClosedSpaces \cup OpenSpaces :
          ~HasDecision(OwnNodes(s.node)) => s.cyclomatic.cyclomatic = 1
    /\ \A s \in ClosedSpaces :
          ~HasDecision(SubtreeNodes(s.node)) =>
              LET j == cyclomatic_serialize(s.cyclomatic)
              IN /\ j.min = F64(1) /\ j.max = F64(1)
                 /\ j.sum = F64(Cardinality(SpacesOf(s)))
                 /\ IsQuotient(j.average, 1, 1)

\* The closed root of a source with a function and a class and no decision
\* node: three spaces of value 1.
C12_Witness ==
    /\ root # <<>> /\ ~HasDecision(NodeIds)
    /\ Cardinality(SpacesOf(root[1])) = 3
    /\ root[1].cyclomatic.cyclomatic = 1
    /\ cyclomatic_serialize(root[1].cyclomatic).sum = F64(3)

\* The function and closure nodes in the subtree of the node that opened s.
FunctionNodes(s) ==
    {t \in SubtreeNodes(s.node) : is_func(tree[t].node) \/ is_closure(tree[t].node)}

Own(d, metric) ==
    CASE metric = "cognitive" -> d.cognitive.structural
      [] metric = "cyclomatic" -> d.cyclomatic.cyclomatic
      [] metric = "nexits" -> d.nexits.exit
ReportedSum(d, metric) ==
    CASE metric = "cognitive" -> d.cognitive.structural_sum
      [] metric = "cyclomatic" -> d.cyclomatic.cyclomatic_sum
      [] metric = "nexits" -> d.nexits.exit_sum
ReportedMin(d, metric) ==
    CASE metric = "cognitive" -> d.cognitive.structural_min
      [] metric = "cyclomatic" -> d.cyclomatic.cyclomatic_min
      [] metric = "nexits" -> d.nexits.exit_min
ReportedMax(d, metric) ==
    CASE metric = "cognitive" -> d.cognitive.structural_max
      [] metric = "cyclomatic" -> d.cyclomatic.cyclomatic_max
      [] metric = "nexits" -> d.nexits.exit_max

RECURSIVE SumOfOwn(_, _)
\* The sum of the own values of the spaces of S.
SumOfOwn(S, metric) ==
    IF S = {} THEN 0
    ELSE LET d == CHOOSE x \in S : TRUE
         IN Own(d, metric) + SumOfOwn(S \ {d}, metric)

\* The nodes of the subtree of s that open a space.
SpaceNodes(s) == {t \in SubtreeNodes(s.node) : is_func_space(tree[t].node)}

\* C18: the sum of a closed space is its own value plus the own values of
\* all the spaces nested in it, and the spaces nested in it are exactly
\* those opened by the nodes of its subtree, each once.
C18_SumOverSubtree ==
    \A s \in ClosedSpaces :
        /\ {d.node : d \in SpacesOf(s)} = SpaceNodes(s)
        /\ Cardinality(SpacesOf(s)) = Cardinality(SpaceNodes(s))
        /\ \A metric \in Metrics :
              ReportedSum(s, metric) = SumOfOwn(SpacesOf(s), metric)

\* The root is closed over a function that returns and holds a function
\* that returns: three spaces in a line, sums 3 (cyclomatic) and 2 (exit).
C18_Witness ==
    /\ Len(root) = 1 /\ Len(root[1].spaces) = 1
    /\ Len(root[1].spaces[1].spaces) = 1
    /\ root[1].spaces[1].nexits.exit = 1
    /\ root[1].spaces[1].spaces[1].nexits.exit = 1
    /\ root[1].nexits.exit_sum = 2
    /\ root[1].cyclomatic.cyclomatic_sum = 3

\* C19: the minimum and maximum of a closed space are those of the final
\* own values of the space and of all the spaces nested in it, wherever
\* the nodes of the space itself lie with respect to the nested spaces.
C19_MinMaxOverSubtree ==
    \A s \in ClosedSpaces :
        \A metric \in Metrics :
            LET values == {Own(d, metric) : d \in SpacesOf(s)}
            IN /\ ReportedMin(s, metric) \in values
               /\ ReportedMax(s, metric) \in values
               /\ \A v \in values : ReportedMin(s, metric) <= v /\ v <= ReportedMax(s, metric)

\* A closed function whose own return comes after the function nested in
\* it, and one whose own return comes before: in both the nested function
\* has no exit and the minimum is 0, the maximum 1.
OwnReturnAfterNested(s) ==
    /\ s.kind = "Function" /\ Len(s.spaces) = 1 /\ s.spaces[1].kind = "Function"
    /\ s.nexits.exit = 1 /\ s.spaces[1].nexits.exit = 0
    /\ s.nexits.exit_min = 0 /\ s.nexits.exit_max = 1
    /\ \E t \in NodeIds :
          /\ tree[t].node.kind_id = "ReturnStatement" /\ tree[t].parent = s.node
          /\ t > s.spaces[1].node
C19_Witness ==
    \E s \in ClosedSpaces : OwnReturnAfterNested(s)

\* The function definitions read so far, and whether one lies in another.
FunctionDefinitions == {t \in NodeIds : tree[t].node.kind_id = "FunctionDefinition"}
InsideFunction(t) == \E p \in FunctionDefinitions : p # t /\ Within(t, p)

\* C20 as stated: a function definition stores nesting 0 for its body,
\* and the depth of its parent, plus one if and only if it lies inside
\* another function.
C20_FunctionResetsNesting ==
    \A t \in FunctionDefinitions :
        /\ nesting_map[t][1] = 0
        /\ nesting_map[t][2] =
              nesting_map[tree[t].parent][2] + (IF InsideFunction(t) THEN 1 ELSE 0)

\* What the Python computator does: the depth is as stated, but the nesting
\* level and the lambda level of the parent are handed on to the body.
C20_FunctionKeepsNesting ==
    \A t \in FunctionDefinitions :
        /\ nesting_map[t][1] = nesting_map[tree[t].parent][1]
        /\ nesting_map[t][2] =
              nesting_map[tree[t].parent][2] + (IF InsideFunction(t) THEN 1 ELSE 0)
        /\ nesting_map[t][3] = nesting_map[tree[t].parent][3]

\* A function defined under an if of a top-level function: its body starts
\* at nesting 1, depth 1, while the top-level function has depth 0.
C20_Witness ==
    \E t \in FunctionDefinitions :
        /\ tree[tree[t].parent].node.kind_id = "IfStatement"
        /\ InsideFunction(t)
        /\ nesting_map[t] = <<1, 1, 0>>
        /\ \E p \in FunctionDefinitions : tree[p].parent = 1 /\ nesting_map[p] = <<0, 0, 0>>

\* A step of the walk enters a node of one of `kinds`, which opens no space.
NodeEntered(kinds) ==
    /\ Len(tree') > Len(tree)
    /\ tree'[Len(tree) + 1].node.kind_id \in kinds
    /\ Len(spaces') = Len(spaces) /\ spaces # <<>>

\* The triple the entered node inherits from its parent.
InheritedTriple == nesting_map[tree'[Len(tree) + 1].parent]

\* C21: an if statement or a conditional expression adds nesting + depth +
\* lambda + 1 of the triple it inherits to the running value of the
\* innermost open space, stores nesting + 1 for its descendants and
\* empties the tracker of the boolean run.
C21_NestingConstructCost ==
    [][NodeEntered({"IfStatement", "ConditionalExpression"}) =>
          LET t == InheritedTriple
              before == spaces[Len(spaces)].cognitive
              after == spaces'[Len(spaces)].cognitive
          IN /\ after.structural = before.structural + t[1] + t[2] + t[3] + 1
             /\ nesting_map'[Len(tree) + 1] = <<t[1] + 1, t[2], t[3]>>
             /\ after.boolean_seq = None]_vars

\* A conditional expression in the body of a lambda of a function defined
\* in a function: it inherited (0, 1, 1) and cost 3.
C21_Witness ==
    /\ Len(spaces) = 3
    /\ spaces[3].cognitive.structural = 3
    /\ \E t \in NodeIds :
          /\ tree[t].node.kind_id = "ConditionalExpression"
          /\ nesting_map[tree[t].parent] = <<0, 1, 1>>
          /\ nesting_map[t] = <<1, 1, 1>>

RECURSIVE StatementOf(_)
\* The innermost statement that holds node t.
StatementOf(t) ==
    IF tree[t].node.kind \in StatementKinds \/ tree[t].parent = 0 THEN t
    ELSE StatementOf(tree[t].parent)

\* A step enters a boolean operator that is the first thing read in its
\* statement apart from plain operands: no boolean operator, `not`, lambda
\* or conditional expression of the statement comes before it.
FirstOperatorEntered(statements) ==
    /\ NodeEntered({"BooleanOperator"})
    /\ LET st == StatementOf(tree'[Len(tree) + 1].parent)
       IN /\ tree[st].node.kind \in statements
          /\ \A u \in NodeIds :
                Within(u, st) =>
                    tree[u].node.kind \notin {"boolean_operator", "not_operator",
                                              "lambda", "conditional_expression"}

\* What the entered node added to the innermost open space.
CostOfEntered ==
    spaces'[Len(spaces)].cognitive.structural - spaces[Len(spaces)].cognitive.structural

\* C22 as stated: the first boolean operator of a statement costs 1
\* whatever the statements before it held.
C22_NoLeakAcrossStatements ==
    [][FirstOperatorEntered(StatementKinds) => CostOfEntered = 1]_vars

\* What the code gives: the first boolean operator of an expression
\* statement or of the condition of an if costs 1 whatever came before.
C22_ResetAtExpressionStatements ==
    [][FirstOperatorEntered({"expression_statement", "if_statement"}) =>
          CostOfEntered = 1]_vars

\* Two expression statements `a and a` in a row have been read, and each
\* `and` has cost 1.
C22_Witness ==
    /\ Len(spaces) = 1 /\ spaces[1].cognitive.structural = 2
    /\ [i \in 1..Len(tree) |-> tree[i].node.kind_id] =
          <<"Module", "ExpressionStatement", "BooleanOperator", "Identifier", "And",
            "Identifier", "ExpressionStatement", "BooleanOperator", "Identifier",
            "And", "Identifier">>

\* What the computator makes of the triple a node of tree[t]'s kind starts
\* from.
UpdatedTriple(t, start) ==
    CASE tree[t].node.kind_id \in {"IfStatement", "ConditionalExpression"} ->
            <<start[1] + 1, start[2], start[3]>>
      [] tree[t].node.kind_id = "Lambda" -> <<start[1], start[2], start[3] + 1>>
      [] tree[t].node.kind_id = "FunctionDefinition" ->
            <<start[1], start[2] + (IF InsideFunction(t) THEN 1 ELSE 0), start[3]>>
      [] OTHER -> start

\* C23 as the code has it: every node visited has a triple stored, its
\* parent was visited before it, and the triple is the update of the triple
\* stored for the parent; (0, 0, 0) is the start of the root of the tree
\* only.
C23_TripleFromParent ==
    /\ Len(nesting_map) = Len(tree)
    /\ \A t \in NodeIds :
          /\ tree[t].parent < t
          /\ nesting_map[t] =
                UpdatedTriple(t, IF tree[t].parent = 0 THEN <<0, 0, 0>>
                                 ELSE nesting_map[tree[t].parent])

\* A class defined under an if: it opens a space and starts from the
\* triple of the if, (1, 0, 0).
C23_Witness ==
    \E t \in NodeIds :
        /\ tree[t].node.kind_id = "ClassDefinition"
        /\ tree[tree[t].parent].node.kind_id = "IfStatement"
        /\ nesting_map[t] = <<1, 0, 0>>
        /\ \E u \in NodeIds : tree[u].parent = t /\ nesting_map[u] = <<1, 0, 0>>

\* C23 as stated: the same, with (0, 0, 0) as the start of every node that
\* opens a space.
C23_ZeroAtSpaceRoots ==
    /\ Len(nesting_map) = Len(tree)
    /\ \A t \in NodeIds :
          /\ tree[t].parent < t
          /\ nesting_map[t] =
                UpdatedTriple(t, IF tree[t].parent = 0 \/ is_func_space(tree[t].node)
                                 THEN <<0, 0, 0>>
                                 ELSE nesting_map[tree[t].parent])

\* The step folds some bundle into bundle x.
MergedInto(x) == Get(x).nspace # (IF x = "a" THEN sa' ELSE IF x = "b" THEN sb' ELSE sc')[1].nspace

\* The own, non-aggregate part of a bundle.
OwnPart(b) ==
    [structural |-> b.cognitive.structural, nesting |-> b.cognitive.nesting,
     boolean_seq |-> b.cognitive.boolean_seq,
     cognitive_total |-> b.cognitive.total_space_functions,
     cyclomatic |-> b.cyclomatic.cyclomatic,
     exit |-> b.nexits.exit, exit_total |-> b.nexits.total_space_functions,
     sealed |-> b.sealed, total |-> b.total]

\* C26: a merge leaves the merged bundle and the third bundle as they were
\* and changes nothing of the receiving bundle but its aggregates (sum, min,
\* max, and the space count of cyclomatic).
C26_MergeFrame ==
    [][\A x \in {"a", "b", "c"} :
          MergedInto(x) =>
             /\ \A y \in {"a", "b", "c"} \ {x} :
                   (IF y = "a" THEN sa' = sa ELSE IF y = "b" THEN sb' = sb ELSE sc' = sc)
             /\ OwnPart((IF x = "a" THEN sa' ELSE IF x = "b" THEN sb' ELSE sc')[1])
                   = OwnPart(Get(x))]_vars

\* b was closed with own cost 1 and merged into a, whose own cost is 1; c
\* has a cost of its own.
C26_Witness ==
    /\ sa[1].nspace = 2 /\ ~sa[1].sealed
    /\ sa[1].cognitive.structural = 1 /\ sa[1].cognitive.structural_sum = 1
    /\ sb[1].sealed /\ sb[1].cognitive.structural = 1
    /\ sc[1].cognitive.structural = 1

\* The closed root spaces in which some space is of kind Function.
RootsWithFunction ==
    {root[i] : i \in {j \in 1..Len(root) :
                        \E d \in SpacesOf(root[j]) : d.kind = "Function"}}

\* C29 as stated: when the source holds at least one Function space, the
\* cognitive average of the root space is written as a number.
C29_AverageWithFunctionIsNumber ==
    \A s \in RootsWithFunction : cognitive_serialize(s.cognitive).average # Null

\* What the code gives: with a Function space in the source, the average
\* of the root is null exactly when the cognitive sum is 0 and the divisor
\* is at most 1, and is the sum over the divisor otherwise.
C29_AverageNullWhenSingleFunctionCostsNothing ==
    \A s \in RootsWithFunction :
        LET average == cognitive_serialize(s.cognitive).average IN
        /\ average = Null <=>
              (s.cognitive.structural_sum = 0 /\ s.cognitive.total_space_functions <= 1)
        /\ average # Null =>
              IsQuotient(average, s.cognitive.structural_sum,
                         s.cognitive.total_space_functions)

\* A root with one function whose if costs 1 (average 1), and, apart from
\* it, the case the guard hides: one function that costs nothing.
C29_Witness ==
    \E s \in RootsWithFunction :
        /\ Len(s.spaces) = 1 /\ s.spaces[1].kind = "Function"
        /\ s.cognitive.structural_sum = 1
        /\ s.cognitive.total_space_functions = 1
        /\ IsQuotient(cognitive_serialize(s.cognitive).average, 1, 1)

\* C30: for every closed space, n1 <= N1 and n2 <= N2, n1 is 0 exactly when
\* N1 is and n2 exactly when N2 is; finalize gives the same Stats whatever
\* the Stats held before, so also when it is called a second time; and the
\* maps of closed spaces merge to the same maps in either order.
C30_HalsteadFromMaps ==
    /\ \A s \in ClosedSpaces :
          /\ s.halstead.u_operators <= s.halstead.operators
          /\ s.halstead.u_operands <= s.halstead.operands
          /\ s.halstead.u_operators = 0 <=> s.halstead.operators = 0
          /\ s.halstead.u_operands = 0 <=> s.halstead.operands = 0
          /\ \A earlier \in {halstead_default, s.halstead,
                             [u_operators |-> 3, operators |-> 5, u_operands |-> 2,
                              operands |-> 7]} :
                HalsteadMaps_finalize(s.halstead_maps, earlier) = s.halstead
          /\ HalsteadMaps_finalize(s.halstead_maps,
                                   HalsteadMaps_finalize(s.halstead_maps, s.halstead))
                = s.halstead
    /\ \A s, t \in ClosedSpaces :
          LET parents == {HalsteadMaps_new} \cup {p.halstead_maps : p \in OpenSpaces} IN
          \A maps \in parents :
              HalsteadMaps_merge(HalsteadMaps_merge(maps, s.halstead_maps), t.halstead_maps)
                 = HalsteadMaps_merge(HalsteadMaps_merge(maps, t.halstead_maps),
                                      s.halstead_maps)

\* The closed root of two spaces, each with operators and operands of its
\* own: some operator and some operand occur more than once.
C30_Witness ==
    /\ root # <<>>
    /\ Len(root[1].spaces) = 2
    /\ \A i \in 1..2 : root[1].spaces[i].halstead.operands >= 1
    /\ root[1].halstead.u_operators < root[1].halstead.operators
    /\ root[1].halstead.u_operands < root[1].halstead.operands
    /\ root[1].halstead.u_operators >= 1

\* C10 as the code has it: a walk that is over has a root; when no node
\* but the root opens a space the root is a Unit space with no child
\* space, its cyclomatic average is a number, its own cyclomatic value, and
\* unless the source holds a closure its cognitive and exit averages are
\* null whatever the root counted itself.
C10_RootWithoutFunctions ==
    /\ (tree # <<>> /\ stack = <<>>) => Len(root) = 1
    /\ (root # <<>> /\ NoSpaceOpened) =>
          /\ root[1].kind = "Unit" /\ root[1].spaces = <<>>
          /\ IsQuotient(cyclomatic_serialize(root[1].cyclomatic).average,
                        root[1].cyclomatic.cyclomatic, 1)
          /\ ~HasFunctionOrClosure(root[1]) =>
                /\ cognitive_serialize(root[1].cognitive).average = Null
                /\ exit_serialize(root[1].nexits).average = Null
          /\ HasFunctionOrClosure(root[1]) =>
                exit_serialize(root[1].nexits).average # Null

\* The closed root of a source without functions that counted an if and a
\* return itself.
C10_Witness ==
    /\ root # <<>> /\ NoSpaceOpened /\ ~HasFunctionOrClosure(root[1])
    /\ root[1].cognitive.structural > 0 /\ root[1].nexits.exit > 0
    /\ cognitive_serialize(root[1].cognitive).average = Null
    /\ exit_serialize(root[1].nexits).average = Null

\* C10 as the specification states it: the root of a source in which no
\* node opens a function is a Unit space with no child space, and its
\* cognitive, cyclomatic and exit averages are all null.
C10_RootAveragesAsStated ==
    (root # <<>> /\ NoSpaceOpened) =>
        /\ root[1].kind = "Unit" /\ root[1].spaces = <<>>
        /\ cognitive_serialize(root[1].cognitive).average = Null
        /\ cyclomatic_serialize(root[1].cyclomatic).average = Null
        /\ exit_serialize(root[1].nexits).average = Null

(***************************************************************************)
(* Properties of the walk over conditions (SpecCond)                       *)
(***************************************************************************)
\* The boolean operator tokens read so far, in source order.
SourceOps ==
    LET ops == SelectSeq(tree, LAMBDA e : e.node.kind_id \in {"And", "Or"})
    IN [i \in 1..Len(ops) |-> ops[i].node.kind_id]

\* +1 for a run of operators, +1 again each time the operator changes.
RunCost(ops) ==
    IF ops = <<>> THEN 0
    ELSE 1 + Cardinality({i \in 1..(Len(ops) - 1) : ops[i] # ops[i + 1]})

\* The operator token of boolean_operator node t.
OperatorToken(t) ==
    CHOOSE u \in NodeIds : tree[u].parent = t /\ tree[u].node.kind_id \in {"And", "Or"}

\* Whether the boolean operators read so far nest the way an expression
\* written without parentheses does: `and` binds tighter than `or`, and
\* both group to the left.
WrittenWithoutParentheses ==
    \A t \in NodeIds :
        (/\ tree[t].node.kind_id = "BooleanOperator"
         /\ tree[t].parent # 0
         /\ tree[tree[t].parent].node.kind_id = "BooleanOperator") =>
            LET p == tree[t].parent
                left == t < OperatorToken(p)
            IN IF tree[OperatorToken(p)].node.kind_id = "And"
               THEN left /\ tree[OperatorToken(t)].node.kind_id = "And"
               ELSE left \/ tree[OperatorToken(t)].node.kind_id = "And"

\* The condition of the if statement that opens the body of the first
\* function of the source has just been read in full.
FirstConditionRead ==
    /\ Len(stack) = 3
    /\ stack[2].kind_id = "FunctionDefinition" /\ stack[2].id = 2
    /\ stack[3].kind_id = "IfStatement" /\ stack[3].id = 5
    /\ stack[3].nchild = 1

\* C6: inside one function the condition of an if costs +1 for a run of
\* boolean operators and +1 again each time the operator changes, on top
\* of the +1 of the if.
C6_BooleanRunCost ==
    (FirstConditionRead /\ WrittenWithoutParentheses) =>
        spaces[2].cognitive.structural = 1 + RunCost(SourceOps)

\* The same for conditions of at most two operators, which covers
\* `if a and b:`, `if a and b and True:` and `if a and b or True:`.
C6_UpToTwoOperators ==
    (FirstConditionRead /\ WrittenWithoutParentheses /\ Len(SourceOps) <= 2) =>
        spaces[2].cognitive.structural = 1 + RunCost(SourceOps)

\* `if a and b or c:` has been read and has cost 3.
C6_Witness ==
    /\ FirstConditionRead /\ WrittenWithoutParentheses
    /\ SourceOps = <<"And", "Or">>
    /\ spaces[2].cognitive.structural = 3

\* A step of the walk enters a boolean_operator node, which evaluates the
\* node's operator against the run tracker of the innermost open space.
BooleanOperatorEntered ==
    /\ Len(tree') = Len(tree) + 1
    /\ tree'[Len(tree')].node.kind_id = "BooleanOperator"
    /\ Len(spaces') = Len(spaces) /\ spaces # <<>>

\* The operator the entered boolean_operator node carries.
EnteredOperator == stack'[Len(stack')].children[1]

\* C14: an operator adds +1 if the tracker is empty or holds another
\* operator and nothing if it holds the same one, and after the evaluation
\* the tracker holds the operator just evaluated.
C14_TrackerHoldsLastOperator ==
    [][BooleanOperatorEntered =>
          LET before == spaces[Len(spaces)].cognitive
              after == spaces'[Len(spaces)].cognitive
          IN /\ after.structural - before.structural =
                    (IF before.boolean_seq = None
                        \/ before.boolean_seq # EnteredOperator
                     THEN 1 ELSE 0)
             /\ after.boolean_seq = EnteredOperator]_vars

\* What the code does: the cost is as stated with respect to the tracker,
\* but the tracker is written only when it is empty.
C14_TrackerKeepsFirstOperator ==
    [][BooleanOperatorEntered =>
          LET before == spaces[Len(spaces)].cognitive
              after == spaces'[Len(spaces)].cognitive
          IN /\ after.structural - before.structural =
                    (IF before.boolean_seq = None
                        \/ before.boolean_seq # EnteredOperator
                     THEN 1 ELSE 0)
             /\ after.boolean_seq =
                    (IF before.boolean_seq = None THEN EnteredOperator
                     ELSE before.boolean_seq)]_vars

\* `a or b and c` has been read: the tracker still holds `or` after the
\* `and` node nested in the `or` node was evaluated.
C14_Witness ==
    /\ SourceOps = <<"Or", "And">>
    /\ \E t \in NodeIds :
          /\ tree[t].node.kind_id = "BooleanOperator"
          /\ tree[t].parent # 0
          /\ tree[tree[t].parent].node.kind_id = "BooleanOperator"
    /\ spaces # <<>> /\ spaces[Len(spaces)].cognitive.boolean_seq = "Or"

(***************************************************************************)
(* Properties of the walk over clauses (SpecClause)                        *)
(***************************************************************************)
\* A step of the walk enters a node of one of `kinds` inside the function.
ClauseEntered(kinds) ==
    /\ Len(tree') > Len(tree)
    /\ tree'[Len(tree) + 1].node.kind_id \in kinds
    /\ Len(spaces) = 2 /\ Len(spaces') = 2

\* What the entered node added to the cognitive value of the function.
EnteredCost == spaces'[2].cognitive.structural - spaces[2].cognitive.structural

\* The nesting level the entered node stores for its descendants, and the
\* one its parent stored.
EnteredNesting == nesting_map'[Len(tree) + 1][1]
ParentNesting == nesting_map[tree'[Len(tree) + 1].parent][1]

PlainTopLevelFunctions ==
    {s \in ClosedSpaces \cup OpenSpaces :
        /\ s.kind = "Function"
        /\ tree[s.node].parent = 1
        /\ \A t \in OwnNodes(s.node) : tree[t].node.kind_id # "BooleanOperator"}

LANG_iter ==
    <<"Javascript", "Java", "Kotlin", "Rust", "Cpp", "Python", "Tsx", "Typescript",
      "Elixir", "Erlang", "Gleam", "Lua", "Go", "Csharp">>

LANG == {LANG_iter[i] : i \in DOMAIN LANG_iter}

\* register_builtin_parsers leaving Go out.
register_builtin_parsers_without_go ==
    {"Javascript", "Java", "Rust", "Cpp", "Python", "Tsx", "Typescript", "Elixir",
     "Erlang", "Gleam", "Lua", "Csharp"}

\* ParserRegistry::register_builtin_parsers
register_builtin_parsers ==
    {"Javascript", "Java", "Rust", "Cpp", "Python", "Tsx", "Typescript", "Elixir",
     "Erlang", "Gleam", "Lua", "Go", "Csharp"}

\* BuiltinParserFactory::get_extensions
get_extensions(lang) ==
    CASE lang = "Javascript" -> {"js", "mjs", "jsx"}
      [] lang = "Java" -> {"java"}
      [] lang = "Rust" -> {"rs"}
      [] lang = "Cpp" -> {"cpp", "cxx", "cc", "hxx", "hpp", "c", "h", "hh", "inc", "mm", "m"}
      [] lang = "Python" -> {"py"}
      [] lang = "Tsx" -> {"tsx"}
      [] lang = "Typescript" -> {"ts", "jsw", "jsmw"}
      [] lang = "Elixir" -> {"ex", "exs"}
      [] lang = "Erlang" -> {"erl", "hrl"}
      [] lang = "Gleam" -> {"gleam"}
      [] lang = "Lua" -> {"lua"}
      [] lang = "Go" -> {"go"}
      [] lang = "Csharp" -> {"cs", "csx"}
      [] lang = "Kotlin" -> {"kt", "kts"}

get_factory(registry, language) ==
    IF language \in registry THEN <<language>> ELSE <<>>

\* The registered language one of whose extensions is the path's, if any.
detect_language_from_path(registry, path) ==
    IF \E lang \in registry : path.extension \in get_extensions(lang)
    THEN <<CHOOSE lang \in registry : path.extension \in get_extensions(lang)>>
    ELSE <<>>

\* Files on disk: an extension, and whether the file can be read.
Paths == [extension : {"py", "rs", "kt", "xyz"}, readable : BOOLEAN]

\* What get_function_spaces may return: no root space, or one of two.
Walked == {<<>>, <<"unit_a">>, <<"unit_b">>}

Result(k, of, reason, root_space) ==
    [k |-> k, of |-> of, reason |-> reason, root_space |-> root_space]

\* analyze_language with the two checks in the other order.
analyze_language_walk_first(registry, language, walked) ==
    IF walked = <<>>
    THEN [result |-> Result("AnalysisFailed", language,
                            "metric pipeline returned no data", <<>>),
          work |-> <<"get_function_spaces">>]
    ELSE IF get_factory(registry, language) = <<>>
    THEN [result |-> Result("UnsupportedLanguage", language, "", <<>>), work |-> <<>>]
    ELSE [result |-> Result("Ok", language, "", walked),
          work |-> <<"get_function_spaces">>]

\* Returns the Result and the work done.  `walked` is what the metric
\* pipeline (get_function_spaces) returns for the source.
analyze_language(registry, language, walked) ==
    IF get_factory(registry, language) = <<>>
    THEN [result |-> Result("UnsupportedLanguage", language, "", <<>>), work |-> <<>>]
    ELSE IF walked = <<>>
    THEN [result |-> Result("AnalysisFailed", language,
                            "metric pipeline returned no data", <<>>),
          work |-> <<"get_function_spaces">>]
    ELSE [result |-> Result("Ok", language, "", walked),
          work |-> <<"get_function_spaces">>]

analyze_file(registry, path, walked) ==
    IF ~path.readable
    THEN [result |-> Result("Io", path.extension, "", <<>>), work |-> <<"fs_read">>]
    ELSE LET language == detect_language_from_path(registry, path)
         IN IF language = <<>>
            THEN [result |-> Result("UnsupportedLanguage", path.extension, "", <<>>),
                  work |-> <<"fs_read">>]
            ELSE LET r == analyze_language(registry, language[1], walked)
                 IN [result |-> r.result, work |-> <<"fs_read">> \o r.work]

AnalyzeLanguage(language, walked) ==
    /\ Len(request) < MaxRequests
    /\ LET r == analyze_language(register_builtin_parsers, language, walked) IN
       /\ request' = Append(request, [op |-> "analyze_language", language |-> language,
                                      path |-> <<>>, walked |-> walked])
       /\ outcome' = Append(outcome, r.result)
       /\ effects' = Append(effects, r.work)
    /\ UNCHANGED <<walkVars, statsVars, clauses, countVars>>

AnalyzeFile(path, walked) ==
    /\ Len(request) < MaxRequests
    /\ LET r == analyze_file(register_builtin_parsers, path, walked) IN
       /\ request' = Append(request, [op |-> "analyze_file", language |-> "",
                                      path |-> <<path>>, walked |-> walked])
       /\ outcome' = Append(outcome, r.result)
       /\ effects' = Append(effects, r.work)
    /\ UNCHANGED <<walkVars, statsVars, clauses, countVars>>

InitAnalyzer == WalkInit /\ StatsIdle /\ AnalyzerIdle /\ SiblingsIdle /\ CountIdle

NextAnalyzer ==
    \/ \E language \in LANG, walked \in Walked : AnalyzeLanguage(language, walked)
    \/ \E path \in Paths, walked \in Walked : AnalyzeFile(path, walked)


SpecAnalyzer == InitAnalyzer /\ [][NextAnalyzer]_vars

(***************************************************************************)
(* SpecLanguages: language identifiers are resolved with                   *)
(* language_from_str and analyses are requested for a language.  A string  *)
(* is the sequence of its characters.                                      *)
(***************************************************************************)
Uppercase ==
    <<"A", "B", "C", "D", "E", "F", "G", "H", "I", "J", "K", "L", "M", "N", "O", "P", "Q", "R", "S", "T", "U", "V", "W", "X", "Y", "Z">>

Lowercase ==
    <<"a", "b", "c", "d", "e", "f", "g", "h", "i", "j", "k", "l", "m", "n", "o", "p", "q", "r", "s", "t", "u", "v", "w", "x", "y", "z">>

\* char::to_lowercase on the characters a language identifier may hold.
to_lowercase_char(c) ==
    IF \E i \in DOMAIN Uppercase : Uppercase[i] = c
    THEN Lowercase[CHOOSE i \in DOMAIN Uppercase : Uppercase[i] = c]
    ELSE c

\* str::to_lowercase
to_lowercase(str) == [i \in DOMAIN str |-> to_lowercase_char(str[i])]

\* str::trim: leading and trailing white space removed.
RECURSIVE trim(_)
trim(str) ==
    IF str = <<>> THEN str
    ELSE IF Head(str) = " " THEN trim(Tail(str))
    ELSE IF str[Len(str)] = " " THEN trim(SubSeq(str, 1, Len(str) - 1))
    ELSE str

\* LANG::get_name: the display name.
get_name(lang) ==
    CASE lang = "Javascript" -> <<"j", "a", "v", "a", "s", "c", "r", "i", "p", "t">>
      [] lang = "Java" -> <<"j", "a", "v", "a">>
      [] lang = "Kotlin" -> <<"k", "o", "t", "l", "i", "n">>
      [] lang = "Rust" -> <<"r", "u", "s", "t">>
      [] lang = "Cpp" -> <<"c", "/", "c", "+", "+">>
      [] lang = "Python" -> <<"p", "y", "t", "h", "o", "n">>
      [] lang = "Tsx" -> <<"t", "y", "p", "e", "s", "c", "r", "i", "p", "t">>
      [] lang = "Typescript" -> <<"t", "y", "p", "e", "s", "c", "r", "i", "p", "t">>
      [] lang = "Elixir" -> <<"e", "l", "i", "x", "i", "r">>
      [] lang = "Erlang" -> <<"e", "r", "l", "a", "n", "g">>
      [] lang = "Gleam" -> <<"g", "l", "e", "a", "m">>
      [] lang = "Lua" -> <<"l", "u", "a">>
      [] lang = "Go" -> <<"g", "o">>
      [] lang = "Csharp" -> <<"c", "#">>

\* format!("{lang:?}"): the name of the variant.
debug_name(lang) ==
    CASE lang = "Javascript" -> <<"J", "a", "v", "a", "s", "c", "r", "i", "p", "t">>
      [] lang = "Java" -> <<"J", "a", "v", "a">>
      [] lang = "Kotlin" -> <<"K", "o", "t", "l", "i", "n">>
      [] lang = "Rust" -> <<"R", "u", "s", "t">>
      [] lang = "Cpp" -> <<"C", "p", "p">>
      [] lang = "Python" -> <<"P", "y", "t", "h", "o", "n">>
      [] lang = "Tsx" -> <<"T", "s", "x">>
      [] lang = "Typescript" -> <<"T", "y", "p", "e", "s", "c", "r", "i", "p", "t">>
      [] lang = "Elixir" -> <<"E", "l", "i", "x", "i", "r">>
      [] lang = "Erlang" -> <<"E", "r", "l", "a", "n", "g">>
      [] lang = "Gleam" -> <<"G", "l", "e", "a", "m">>
      [] lang = "Lua" -> <<"L", "u", "a">>
      [] lang = "Go" -> <<"G", "o">>
      [] lang = "Csharp" -> <<"C", "s", "h", "a", "r", "p">>

\* The first variant, in the order of the enum, with the display name or
\* the lower-cased variant name `normalized`.
find_lang(normalized) ==
    LET hits == {i \in DOMAIN LANG_iter :
                    \/ get_name(LANG_iter[i]) = normalized
                    \/ to_lowercase(debug_name(LANG_iter[i])) = normalized}
    IN IF hits = {} THEN <<>>
       ELSE <<LANG_iter[CHOOSE i \in hits : \A j \in hits : i <= j]>>

\* SingularityCodeAnalyzer::language_from_str; <<>> is None.
language_from_str(value) ==
    LET normalized == to_lowercase(trim(value)) IN
    IF normalized \in {<<"j", "s">>, <<"j", "a", "v", "a", "s", "c", "r", "i", "p", "t">>}
    THEN <<"Javascript">>
    ELSE IF normalized \in {<<"t", "s">>, <<"t", "y", "p", "e", "s", "c", "r", "i", "p", "t">>}
    THEN <<"Typescript">>
    ELSE IF normalized = <<"t", "s", "x">>
    THEN <<"Tsx">>
    ELSE IF normalized \in {<<"g", "o", "l", "a", "n", "g">>, <<"g", "o">>}
    THEN <<"Go">>
    ELSE IF normalized \in {<<"c", "s">>, <<"c", "s", "x">>, <<"c", "#">>, <<"c", "s", "h", "a", "r", "p">>}
    THEN <<"Csharp">>
    ELSE find_lang(normalized)

\* ParserRegistry::supported_languages
supported_languages(registry) == registry

\* The identifiers callers pass.
Values ==
    {<<"g", "o">>,
     <<"g", "o", "l", "a", "n", "g">>,
     <<" ", "G", "o", " ">>,
     <<"G", "O", "L", "A", "N", "G">>,
     <<"k", "o", "t", "l", "i", "n">>,
     <<"K", "o", "t", "l", "i", "n">>,
     <<"k", "t">>,
     <<"r", "u", "s", "t">>,
     <<"R", "U", "S", "T">>,
     <<"p", "y", "t", "h", "o", "n">>,
     <<"c", "/", "c", "+", "+">>,
     <<"c", "p", "p">>,
     <<"c", "#">>,
     <<"c", "s", "h", "a", "r", "p">>,
     <<"c", "s">>,
     <<"t", "s">>,
     <<"t", "s", "x">>,
     <<"t", "y", "p", "e", "s", "c", "r", "i", "p", "t">>,
     <<"j", "s">>,
     <<"j", "a", "v", "a">>,
     <<"l", "u", "a">>,
     <<"x", "y", "z">>,
     <<>>}

\* A caller resolves an identifier.
LanguageFromStr(value) ==
    /\ Len(request) < MaxRequests
    /\ LET r == language_from_str(value) IN
       /\ request' = Append(request, [op |-> "language_from_str", language |-> "",
                                      path |-> <<>>, walked |-> <<>>, value |-> value])
       /\ outcome' = Append(outcome,
                            IF r = <<>> THEN Result("None", "", "", <<>>)
                            ELSE Result("Some", r[1], "", <<>>))
       /\ effects' = Append(effects, <<>>)
    /\ UNCHANGED <<walkVars, statsVars, clauses, countVars>>

NextLanguages ==
    \/ \E value \in Values : LanguageFromStr(value)
    \/ \E language \in LANG, walked \in Walked : AnalyzeLanguage(language, walked)

SpecLanguages == InitAnalyzer /\ [][NextLanguages]_vars


(***************************************************************************)
(* SpecSiblings: the children of one node are visited in order and the     *)
(* cyclomatic computator of the language runs on each.  A child is         *)
(* [kind_id, named, first, operator]: punctuation is not named, `first` is  *)
(* the text of child(0) when that is an identifier, `operator` the kind of *)
(* the child in the field "operator".                                      *)
(***************************************************************************)
\* The closest named sibling before the node about to be visited, if any.
previous_named_sibling(visited) ==
    LET named == SelectSeq(visited, LAMBDA c : c.named)
    IN IF named = <<>> THEN <<>> ELSE <<named[Len(named)]>>

\* The Erlang arm that counts a function clause when the sibling before it
\* is not a function clause.
erlang_cyclomatic_compute_first_of_chain(node, prev, stats) ==
    IF node.kind_id \in {"IfExpr", "CaseExpr", "ReceiveExpr", "TryExpr", "TryAfter",
                         "GuardClause", "CrClause"}
    THEN [stats EXCEPT !.cyclomatic = stats.cyclomatic + 1]
    ELSE IF node.kind_id = "FunctionClause"
            /\ (prev = <<>> \/ prev[1].kind_id # "FunctionClause")
    THEN [stats EXCEPT !.cyclomatic = stats.cyclomatic + 1]
    ELSE stats

\* <ErlangCode as Cyclomatic>::compute; prev is node.previous_named_sibling().
erlang_cyclomatic_compute(node, prev, stats) ==
    IF node.kind_id \in {"IfExpr", "CaseExpr", "ReceiveExpr", "TryExpr", "TryAfter"}
    THEN [stats EXCEPT !.cyclomatic = stats.cyclomatic + 1]
    ELSE IF node.kind_id \in {"GuardClause", "CrClause"}
    THEN [stats EXCEPT !.cyclomatic = stats.cyclomatic + 1]
    ELSE IF node.kind_id = "FunctionClause"
    THEN IF prev # <<>> /\ prev[1].kind_id = "FunctionClause"
         THEN [stats EXCEPT !.cyclomatic = stats.cyclomatic + 1]
         ELSE stats
    ELSE stats

\* <GleamCode as Cyclomatic>::compute.
gleam_cyclomatic_compute(node, prev, stats) ==
    IF node.kind_id = "Case"
    THEN [stats EXCEPT !.cyclomatic = stats.cyclomatic + 1]
    ELSE IF node.kind_id = "CaseClause"
    THEN IF prev # <<>> /\ prev[1].kind_id = "CaseClause"
         THEN [stats EXCEPT !.cyclomatic = stats.cyclomatic + 1]
         ELSE stats
    ELSE stats

\* The Elixir computator without the else block.
elixir_cyclomatic_compute_without_else(node, stats) ==
    IF node.kind_id = "Call"
    THEN IF node.first \in {"if", "unless", "case", "cond", "with", "receive", "try",
                            "for"}
         THEN [stats EXCEPT !.cyclomatic = stats.cyclomatic + 1]
         ELSE stats
    ELSE IF node.kind_id = "StabClause"
    THEN [stats EXCEPT !.cyclomatic = stats.cyclomatic + 1]
    ELSE stats

\* <ElixirCode as Cyclomatic>::compute.
elixir_cyclomatic_compute(node, stats) ==
    IF node.kind_id = "Call"
    THEN IF node.first \in {"if", "unless", "case", "cond", "with", "receive", "try",
                            "for"}
         THEN [stats EXCEPT !.cyclomatic = stats.cyclomatic + 1]
         ELSE stats
    ELSE IF node.kind_id \in {"StabClause", "ElseBlock"}
    THEN [stats EXCEPT !.cyclomatic = stats.cyclomatic + 1]
    ELSE stats

\* <GoCode as Cyclomatic>::compute; Go nodes are matched by kind name.
go_cyclomatic_compute(node, stats) ==
    IF node.kind_id \in {"if_statement", "for_statement", "switch_statement",
                         "select_statement", "type_switch_statement"}
    THEN [stats EXCEPT !.cyclomatic = stats.cyclomatic + 1]
    ELSE IF node.kind_id \in {"expression_case", "communication_case", "default_case"}
    THEN [stats EXCEPT !.cyclomatic = stats.cyclomatic + 1]
    ELSE IF node.kind_id = "binary_expression" /\ node.operator \in {"&&", "||"}
    THEN [stats EXCEPT !.cyclomatic = stats.cyclomatic + 1]
    ELSE stats

Child(kind_id, named, first, operator) ==
    [kind_id |-> kind_id, named |-> named, first |-> first, operator |-> operator]

\* The children a node of each language may have.
SiblingKinds(language) ==
    CASE language = "Erlang" ->
            {Child("FunctionClause", TRUE, "", ""), Child("Comment", TRUE, "", ""),
             Child("SEMI", FALSE, "", "")}
      [] language = "Gleam" ->
            {Child("CaseClause", TRUE, "", ""), Child("Case", TRUE, "", ""),
             Child("LBRACE", FALSE, "", "")}
      [] language = "Elixir" ->
            {Child("ElseBlock", TRUE, "", ""), Child("StabClause", TRUE, "", ""),
             Child("Call", TRUE, "if", ""), Child("Call", TRUE, "foo", "")}
      [] language = "Go" ->
            {Child("default_case", TRUE, "", ""), Child("expression_case", TRUE, "", ""),
             Child("binary_expression", TRUE, "", "&&"),
             Child("binary_expression", TRUE, "", "+")}
      [] language = "Python" ->
            {Child("Else", FALSE, "", ""), Child("COLON", FALSE, "", ""),
             Child("Block", TRUE, "", "")}

\* The languages, each with the ancestors of the children visited (root
\* first) where its computator looks at them: the children of the else
\* clause of a Python if statement, and of a Python for statement.
SiblingContexts ==
    {[language |-> l, ancestors |-> <<>>] : l \in {"Erlang", "Gleam", "Elixir", "Go"}}
    \cup {[language |-> "Python",
           ancestors |-> <<[kind_id |-> k], [kind_id |-> "ElseClause"]>>] :
              k \in {"IfStatement", "ForStatement"}}

\* The walk visits the next child.
VisitSibling(node) ==
    /\ Len(clauses.visited) < MaxSiblings
    /\ node \in SiblingKinds(clauses.language)
    /\ LET prev == previous_named_sibling(clauses.visited) IN
       clauses' = [clauses EXCEPT
           !.visited = Append(@, node),
           !.cyclomatic =
               CASE clauses.language = "Erlang" -> erlang_cyclomatic_compute(node, prev, @)
                 [] clauses.language = "Gleam" -> gleam_cyclomatic_compute(node, prev, @)
                 [] clauses.language = "Elixir" -> elixir_cyclomatic_compute(node, @)
                 [] clauses.language = "Go" -> go_cyclomatic_compute(node, @)
                 [] clauses.language = "Python" ->
                        python_cyclomatic_compute(node, clauses.ancestors, @)]
    /\ UNCHANGED <<walkVars, statsVars, analyzerVars, countVars>>

InitSiblings ==
    /\ WalkInit /\ StatsIdle /\ AnalyzerIdle /\ CountIdle
    /\ clauses \in {[language |-> c.language, ancestors |-> c.ancestors,
                      visited |-> <<>>, cyclomatic |-> cyclomatic_default] :
                      c \in SiblingContexts}

NextSiblings ==
    \E node \in UNION {SiblingKinds(c.language) : c \in SiblingContexts} :
        VisitSibling(node)

SpecSiblings == InitSiblings /\ [][NextSiblings]_vars

(***************************************************************************)
(* Properties of the Stats operations (SpecStats)                          *)
(***************************************************************************)
(***************************************************************************)
(* SpecJumps: the statements of one block are visited in order and the     *)
(* cognitive computator of the language runs on each.  A statement is      *)
(* [kind, kind_id, children], children being the kind ids of its children; *)
(* the block is node 1 and `map` holds the triple stored for it.           *)
(***************************************************************************)
\* <RustCode as Checker>::is_else_if.
rust_is_else_if(node, ancestors) ==
    IF node.kind # "if_expression" THEN FALSE
    ELSE IF ancestors # <<>> THEN ancestors[Len(ancestors)].kind = "else_clause"
    ELSE FALSE

\* <RustCode as Cognitive>::compute; returns the stats and the triple
\* inserted for the node.
rust_cognitive_compute(node, ancestors, stats, map) ==
    LET t == get_nesting_from_map(ancestors, map)
        nesting == t[1]
        depth == t[2]
        lambda == t[3]
        id == node.kind_id
    IN
    IF id = "IfExpression"
    THEN IF ~rust_is_else_if(node, ancestors)
         THEN LET r == increase_nesting(stats, nesting, depth, lambda)
              IN [stats |-> r.stats, triple |-> <<r.nesting, depth, lambda>>]
         ELSE [stats |-> stats, triple |-> t]
    ELSE IF id \in {"ForExpression", "WhileExpression", "MatchExpression"}
    THEN LET r == increase_nesting(stats, nesting, depth, lambda)
         IN [stats |-> r.stats, triple |-> <<r.nesting, depth, lambda>>]
    ELSE IF id = "Else"
    THEN [stats |-> increment_by_one(stats), triple |-> t]
    ELSE IF id \in {"BreakExpression", "ContinueExpression"}
    THEN IF Len(node.children) >= 2 /\ node.children[2] = "Label"
         THEN [stats |-> increment_by_one(stats), triple |-> t]
         ELSE [stats |-> stats, triple |-> t]
    ELSE IF id = "UnaryExpression"
    THEN [stats |-> [stats EXCEPT
                        !.boolean_seq = BoolSequence_not_operator(stats.boolean_seq, id)],
          triple |-> t]
    ELSE IF id = "BinaryExpression"
    THEN [stats |-> compute_booleans(node.children, stats, "AMPAMP", "PIPEPIPE"),
          triple |-> t]
    ELSE IF id = "FunctionItem"
    THEN [stats |-> stats,
          triple |-> <<0, increment_function_depth(depth, ancestors, "FunctionItem"),
                       lambda>>]
    ELSE IF id = "ClosureExpression"
    THEN [stats |-> stats, triple |-> <<nesting, depth, lambda + 1>>]
    ELSE [stats |-> stats, triple |-> t]

\* <JavaCode as Cognitive>::compute; <JavaCode as Checker>::is_else_if is
\* constantly false.
java_cognitive_compute(node, ancestors, stats, map) ==
    LET t == get_nesting_from_map(ancestors, map)
        nesting == t[1]
        depth == t[2]
        lambda == t[3]
        id == node.kind_id
    IN
    IF id \in {"IfStatement", "ForStatement", "WhileStatement", "DoStatement",
               "SwitchBlock", "CatchClause"}
    THEN LET r == increase_nesting(stats, nesting, depth, lambda)
         IN [stats |-> r.stats, triple |-> <<r.nesting, depth, lambda>>]
    ELSE IF id = "Else"
    THEN [stats |-> increment_by_one(stats), triple |-> t]
    ELSE IF id = "UnaryExpression"
    THEN [stats |-> [stats EXCEPT
                        !.boolean_seq = BoolSequence_not_operator(stats.boolean_seq, id)],
          triple |-> t]
    ELSE IF id = "BinaryExpression"
    THEN [stats |-> compute_booleans(node.children, stats, "AMPAMP", "PIPEPIPE"),
          triple |-> t]
    ELSE IF id = "LambdaExpression"
    THEN [stats |-> stats, triple |-> <<nesting, depth, lambda + 1>>]
    ELSE [stats |-> stats, triple |-> t]

\* The statements a block of each language may hold.
JumpKinds(language) ==
    IF language = "Rust"
    THEN {[kind |-> "break_expression", kind_id |-> "BreakExpression",
           children |-> <<"Break", "Label">>],
          [kind |-> "break_expression", kind_id |-> "BreakExpression",
           children |-> <<"Break">>],
          [kind |-> "continue_expression", kind_id |-> "ContinueExpression",
           children |-> <<"Continue", "Label">>],
          [kind |-> "if_expression", kind_id |-> "IfExpression",
           children |-> <<"If", "Identifier", "Block">>]}
    ELSE {[kind |-> "break_statement", kind_id |-> "BreakStatement",
           children |-> <<"Break", "Identifier", "SEMI">>],
          [kind |-> "break_statement", kind_id |-> "BreakStatement",
           children |-> <<"Break", "SEMI">>],
          [kind |-> "continue_statement", kind_id |-> "ContinueStatement",
           children |-> <<"Continue", "Identifier", "SEMI">>],
          [kind |-> "if_statement", kind_id |-> "IfStatement",
           children |-> <<"If", "ParenthesizedExpression", "Block">>]}

\* The walk visits the next statement of the block.
VisitJump(node) ==
    /\ Len(clauses.visited) < MaxSiblings
    /\ node \in JumpKinds(clauses.language)
    /\ clauses' = [clauses EXCEPT
           !.visited = Append(@, node),
           !.cognitive =
               IF clauses.language = "Rust"
               THEN rust_cognitive_compute(node, clauses.ancestors, @, clauses.map).stats
               ELSE java_cognitive_compute(node, clauses.ancestors, @, clauses.map).stats]
    /\ UNCHANGED <<walkVars, statsVars, analyzerVars, countVars>>

InitJumps ==
    /\ WalkInit /\ StatsIdle /\ AnalyzerIdle /\ CountIdle
    /\ clauses \in {[language |-> l,
                     ancestors |-> <<[id |-> 1, kind |-> "block", kind_id |-> "Block"]>>,
                     map |-> <<t>>, visited |-> <<>>, cognitive |-> cognitive_default] :
                      l \in {"Rust", "Java"}, t \in {<<0, 0, 0>>, <<2, 0, 0>>}}

NextJumps ==
    \E node \in JumpKinds("Rust") \cup JumpKinds("Java") : VisitJump(node)

SpecJumps == InitJumps /\ [][NextJumps]_vars

(***************************************************************************)
(* SpecCount: each worker runs <Count as Callback>::call on its own file.  *)
(* A file is the sequence of its syntax nodes, each reduced to whether the *)
(* filters match it.  `results.good += good` is a load and a store through *)
(* the guard the lock returned; the guard is dropped when call returns.    *)
(***************************************************************************)
\* count::count: the number of nodes the filters match, and the number of
\* nodes.
RECURSIVE count(_)
count(nodes) ==
    IF nodes = <<>> THEN [good |-> 0, total |-> 0]
    ELSE LET rest == count(Tail(nodes))
         IN [good |-> rest.good + (IF Head(nodes) THEN 1 ELSE 0),
             total |-> rest.total + 1]

\* Mutex::lock that never waits.
lock_without_waiting(m) == TRUE

\* Mutex::lock returns once no other thread holds the mutex.
lock(m) == m = <<>>

\* Count::default
Count_default == [good |-> 0, total |-> 0]

\* The files handed to the workers: one node that matches, two nodes of
\* which one matches, two nodes of which none matches.
Files == {<<TRUE>>, <<TRUE, FALSE>>, <<FALSE, FALSE>>}

At(w, pc) == w \in DOMAIN workers /\ workers[w].pc = pc

\* let (good, total) = count(parser, &cfg.filters);
CallCount(w) ==
    /\ At(w, "count")
    /\ workers' = [workers EXCEPT ![w] =
           [@ EXCEPT !.pc = "lock", !.good = count(workers[w].file).good,
                     !.total = count(workers[w].file).total]]
    /\ UNCHANGED <<results, mutex>>

\* let mut results = cfg.stats.lock()
CallLock(w) ==
    /\ At(w, "lock")
    /\ lock(mutex)
    /\ mutex' = <<w>>
    /\ workers' = [workers EXCEPT ![w] = [@ EXCEPT !.pc = "load_good"]]
    /\ UNCHANGED results

\* results.good += good, the read
CallLoadGood(w) ==
    /\ At(w, "load_good")
    /\ workers' = [workers EXCEPT ![w] =
           [@ EXCEPT !.pc = "store_good", !.tmp = results[1].good]]
    /\ UNCHANGED <<results, mutex>>

\* results.good += good, the write
CallStoreGood(w) ==
    /\ At(w, "store_good")
    /\ results' = <<[results[1] EXCEPT !.good = workers[w].tmp + workers[w].good]>>
    /\ workers' = [workers EXCEPT ![w] = [@ EXCEPT !.pc = "load_total"]]
    /\ UNCHANGED mutex

\* results.total += total, the read
CallLoadTotal(w) ==
    /\ At(w, "load_total")
    /\ workers' = [workers EXCEPT ![w] =
           [@ EXCEPT !.pc = "store_total", !.tmp = results[1].total]]
    /\ UNCHANGED <<results, mutex>>

\* results.total += total, the write
CallStoreTotal(w) ==
    /\ At(w, "store_total")
    /\ results' = <<[results[1] EXCEPT !.total = workers[w].tmp + workers[w].total]>>
    /\ workers' = [workers EXCEPT ![w] = [@ EXCEPT !.pc = "return"]]
    /\ UNCHANGED mutex

\* Ok(()): the guard goes out of scope and releases the mutex.
CallReturn(w) ==
    /\ At(w, "return")
    /\ mutex' = IF mutex = <<w>> THEN <<>> ELSE mutex
    /\ workers' = [workers EXCEPT ![w] = [@ EXCEPT !.pc = "done"]]
    /\ UNCHANGED results

InitCount ==
    /\ WalkInit /\ StatsIdle /\ AnalyzerIdle /\ SiblingsIdle
    /\ results = <<Count_default>>
    /\ mutex = <<>>
    /\ \E n \in 1..MaxWorkers :
          workers \in [1..n -> {[pc |-> "count", file |-> f, good |-> 0, total |-> 0,
                                 tmp |-> 0] : f \in Files}]

NextCount ==
    \E w \in 1..MaxWorkers :
        /\ \/ CallCount(w)
           \/ CallLock(w)
           \/ CallLoadGood(w)
           \/ CallStoreGood(w)
           \/ CallLoadTotal(w)
           \/ CallStoreTotal(w)
           \/ CallReturn(w)
        /\ UNCHANGED <<walkVars, statsVars, analyzerVars, clauses>>

SpecCount == InitCount /\ [][NextCount]_vars

cognitive_aggregates(s) == <<s.structural_sum, s.structural_min, s.structural_max>>
cyclomatic_aggregates(s) == <<s.cyclomatic_sum, s.cyclomatic_min, s.cyclomatic_max>>
exit_aggregates(s) == <<s.exit_sum, s.exit_min, s.exit_max>>


\* C2: merge is associative and commutative on the aggregates sum, min and
\* max of the cognitive, cyclomatic and exit Stats: folding the Stats of
\* sibling spaces in any order or grouping gives the same sum, min and max.
C2_MergeAssociativeCommutative ==
    LET a == sa[1]
        b == sb[1]
        c == sc[1]
    IN
    /\ cognitive_aggregates(cognitive_merge(cognitive_merge(a.cognitive, b.cognitive), c.cognitive))
         = cognitive_aggregates(cognitive_merge(a.cognitive, cognitive_merge(b.cognitive, c.cognitive)))
    /\ cognitive_aggregates(cognitive_merge(a.cognitive, b.cognitive))
         = cognitive_aggregates(cognitive_merge(b.cognitive, a.cognitive))
    /\ cyclomatic_aggregates(cyclomatic_merge(cyclomatic_merge(a.cyclomatic, b.cyclomatic), c.cyclomatic))
         = cyclomatic_aggregates(cyclomatic_merge(a.cyclomatic, cyclomatic_merge(b.cyclomatic, c.cyclomatic)))
    /\ cyclomatic_aggregates(cyclomatic_merge(a.cyclomatic, b.cyclomatic))
         = cyclomatic_aggregates(cyclomatic_merge(b.cyclomatic, a.cyclomatic))
    /\ exit_aggregates(exit_merge(exit_merge(a.nexits, b.nexits), c.nexits))
         = exit_aggregates(exit_merge(a.nexits, exit_merge(b.nexits, c.nexits)))
    /\ exit_aggregates(exit_merge(a.nexits, b.nexits))
         = exit_aggregates(exit_merge(b.nexits, a.nexits))

\* Three Stats with pairwise different sums, minima not all equal, one of
\* them the result of a merge.
C2_Witness ==
    /\ sa[1].sealed /\ sb[1].sealed /\ sc[1].nspace >= 2
    /\ sa[1].cognitive.structural_sum # sb[1].cognitive.structural_sum
    /\ sa[1].cognitive.structural_min # sb[1].cognitive.structural_min
    /\ sa[1].cyclomatic.cyclomatic_min # sb[1].cyclomatic.cyclomatic_min
    /\ sc[1].cyclomatic.n >= 2

Bundles == {sa[1], sb[1], sc[1]}

\* C3 as the code has it: the cognitive average is null when the divisor is
\* at most 1 and the sum is 0, null when the divisor is 0, and sum / divisor
\* otherwise; the exit average is sum / divisor whenever the divisor is not
\* 0, the number 0 included, and null when it is 0; the cyclomatic average
\* is sum / n, n being the number of spaces folded into the Stats, and is
\* never null.
C3_AverageAsEmitted ==
    \A b \in Bundles :
        LET cog == cognitive_serialize(b.cognitive).average
            cyc == cyclomatic_serialize(b.cyclomatic).average
            ext == exit_serialize(b.nexits).average
        IN
        /\ IF b.cognitive.total_space_functions = 0
              \/ (b.cognitive.total_space_functions <= 1 /\ b.cognitive.structural_sum = 0)
           THEN cog = Null
           ELSE IsQuotient(cog, b.cognitive.structural_sum, b.cognitive.total_space_functions)
        /\ IF b.nexits.total_space_functions = 0
           THEN ext = Null
           ELSE IsQuotient(ext, b.nexits.exit_sum, b.nexits.total_space_functions)
        /\ b.cyclomatic.n = b.nspace
        /\ IsQuotient(cyc, b.cyclomatic.cyclomatic_sum, b.cyclomatic.n)
        /\ b.sealed =>
              /\ b.cognitive.total_space_functions = b.total
              /\ b.nexits.total_space_functions = b.total

\* A closed Stats with nothing counted and divisor 1 (exit average 0,
\* cognitive average null), and one with a sum that its divisor does not
\* divide.
C3_Witness ==
    /\ \E b \in Bundles :
          /\ b.sealed /\ b.total = 1
          /\ b.nexits.exit_sum = 0 /\ b.cognitive.structural_sum = 0
          /\ IsZero(exit_serialize(b.nexits).average)
          /\ cognitive_serialize(b.cognitive).average = Null
    /\ \E b \in Bundles :
          /\ b.sealed /\ b.total = 2
          /\ b.cognitive.structural_sum = 1
          /\ IsQuotient(cognitive_serialize(b.cognitive).average, 1, 2)

\* C3 as the specification states it: for each of the three metrics the
\* average of a closed space is sum / total_space_functions, except that it
\* is null when total_space_functions <= 1 and the sum is 0.
C3_AverageAsStated ==
    \A b \in Bundles :
        b.sealed =>
            LET Stated(j, sum) ==
                    IF b.total <= 1 /\ sum = 0
                    THEN j = Null
                    ELSE IsQuotient(j, sum, b.total)
            IN
            /\ Stated(cognitive_serialize(b.cognitive).average, b.cognitive.structural_sum)
            /\ Stated(cyclomatic_serialize(b.cyclomatic).average, b.cyclomatic.cyclomatic_sum)
            /\ Stated(exit_serialize(b.nexits).average, b.nexits.exit_sum)

(***************************************************************************)
(* Properties of the analyzer facade (SpecAnalyzer)                        *)
(***************************************************************************)
\* Whether the language a request asks for, or the one its path's extension
\* stands for, has a registered parser.
HasRegisteredParser(req) ==
    IF req.op = "analyze_language"
    THEN req.language \in register_builtin_parsers
    ELSE \E lang \in register_builtin_parsers :
            req.path[1].extension \in get_extensions(lang)

\* C4: a request whose requested or detected language has no registered
\* parser returns UnsupportedLanguage and has done no work before it
\* returns: no file read, no parser construction, no tree walk; this for
\* analyze_language and for analyze_file alike.
C4_UnsupportedDoesNoWork ==
    \A i \in 1..Len(request) :
        /\ ~HasRegisteredParser(request[i]) /\ outcome[i].k # "Io" =>
              outcome[i].k = "UnsupportedLanguage"
        /\ outcome[i].k = "UnsupportedLanguage" => effects[i] = <<>>

\* C13: analyze_language returns AnalysisFailed exactly when the language
\* is registered and the walk produced no root space; the error carries
\* the requested language and a reason; with a registered language and a
\* root space the call returns that language and that root space.
C13_AnalysisFailedExactly ==
    \A i \in 1..Len(request) :
        request[i].op = "analyze_language" =>
            LET req == request[i]
                out == outcome[i]
                registered == req.language \in register_builtin_parsers
            IN
            /\ out.k = "AnalysisFailed" <=> (registered /\ req.walked = <<>>)
            /\ out.k = "AnalysisFailed" => out.of = req.language /\ out.reason # ""
            /\ (registered /\ req.walked # <<>>) =>
                  /\ out.k = "Ok" /\ out.of = req.language
                  /\ out.root_space = req.walked

\* One request that failed for want of a root space and one that returned
\* the root space of the walk.
C13_Witness ==
    /\ Len(request) = 2
    /\ request[1].op = "analyze_language" /\ outcome[1].k = "AnalysisFailed"
    /\ request[2].op = "analyze_language" /\ outcome[2].k = "Ok"
    /\ outcome[2].root_space = <<"unit_b">>

(***************************************************************************)
(* Properties of the sibling chains (SpecSiblings)                         *)
(***************************************************************************)
ClauseKind == IF clauses.language = "Erlang" THEN "FunctionClause" ELSE "CaseClause"

\* The children that are clauses, and the kind of the named child before
\* child i ("" when there is none).
ClausePositions ==
    {i \in 1..Len(clauses.visited) : clauses.visited[i].kind_id = ClauseKind}
KindBefore(i) ==
    LET prev == previous_named_sibling(SubSeq(clauses.visited, 1, i - 1))
    IN IF prev = <<>> THEN "" ELSE prev[1].kind_id

\* The children counted whatever their siblings are.
PlainDecisions ==
    Cardinality({i \in 1..Len(clauses.visited) : clauses.visited[i].kind_id = "Case"})

\* C16 as stated: a clause is counted only if the sibling before it is not
\* a clause of the same kind, so a chain of k clauses adds 1.
C16_FirstOfChainCounts ==
    clauses.language \in {"Erlang", "Gleam"} =>
    clauses.cyclomatic.cyclomatic =
        1 + PlainDecisions
          + Cardinality({i \in ClausePositions : KindBefore(i) # ClauseKind})

\* C16 as the code has it: a clause is counted only if the named sibling
\* before it is a clause of the same kind, so a chain of k clauses adds
\* k - 1.
C16_ClauseAfterClauseCounts ==
    clauses.language \in {"Erlang", "Gleam"} =>
    clauses.cyclomatic.cyclomatic =
        1 + PlainDecisions
          + Cardinality({i \in ClausePositions : KindBefore(i) = ClauseKind})

\* Three function clauses separated by semicolons, then a comment and a
\* fourth clause: the chain of three has added 2 and the fourth nothing.
C16_Witness ==
    /\ clauses.language = "Erlang"
    /\ [i \in 1..Len(clauses.visited) |-> clauses.visited[i].kind_id] =
          <<"FunctionClause", "SEMI", "FunctionClause", "SEMI", "FunctionClause",
            "Comment", "FunctionClause">>
    /\ clauses.cyclomatic.cyclomatic = 3

\* A step visits an else without a condition: the `else` keyword of a
\* Python else clause, an Elixir else block, a Go default case.
ElseVisited ==
    /\ Len(clauses'.visited) = Len(clauses.visited) + 1
    /\ clauses'.visited[Len(clauses'.visited)].kind_id \in
          {"Else", "ElseBlock", "default_case"}

JumpVisited ==
    /\ Len(clauses'.visited) = Len(clauses.visited) + 1
    /\ clauses'.visited[Len(clauses'.visited)].kind_id \in
          {"BreakExpression", "ContinueExpression", "BreakStatement",
           "ContinueStatement"}

\* Whether the statement just visited carries a label.
JumpHasLabel ==
    \E i \in DOMAIN clauses'.visited[Len(clauses'.visited)].children :
        clauses'.visited[Len(clauses'.visited)].children[i] \in {"Label", "Identifier"}

JumpCost == clauses'.cognitive.structural - clauses.cognitive.structural

\* C25 as stated: a break or continue adds 1 when it carries a label and
\* nothing when it carries none.
C25_LabeledJumpCosts ==
    [][JumpVisited => JumpCost = (IF JumpHasLabel THEN 1 ELSE 0)]_vars

\* What the code gives: the rule holds in Rust; in Java a break or
\* continue adds nothing, labeled or not.
C25_LabeledJumpCostsInRust ==
    [][JumpVisited =>
          JumpCost = (IF JumpHasLabel /\ clauses.language = "Rust" THEN 1 ELSE 0)]_vars

\* A Rust block at nesting 2: an if, then a labeled break and a plain
\* break, have cost 3 + 1 + 0.
C25_Witness ==
    /\ clauses.language = "Rust" /\ clauses.map = << <<2, 0, 0>> >>
    /\ [i \in 1..Len(clauses.visited) |-> clauses.visited[i].children] =
          << <<"If", "Identifier", "Block">>, <<"Break", "Label">>, <<"Break">> >>
    /\ clauses.cognitive.structural = 4

(***************************************************************************)
(* Properties of the shared Count (SpecCount)                              *)
(***************************************************************************)
\* The number of i in 1..n with file i matching, summed over the workers.
RECURSIVE PerFileSum(_, _)
PerFileSum(w, field) ==
    IF w = 0 THEN 0
    ELSE PerFileSum(w - 1, field) +
         (IF field = "good"
          THEN Cardinality({i \in DOMAIN workers[w].file : workers[w].file[i]})
          ELSE Len(workers[w].file))

AllDone == workers # <<>> /\ \A w \in DOMAIN workers : workers[w].pc = "done"

\* C27: a worker reads and writes the shared Count only while it holds the
\* mutex, and once every worker has returned good and total are the sums
\* of the per-file counts.
C27_NoUpdateLost ==
    /\ \A w \in DOMAIN workers :
          workers[w].pc \in {"load_good", "store_good", "load_total", "store_total",
                             "return"}
             => mutex = <<w>>
    /\ AllDone =>
          /\ results[1].good = PerFileSum(Len(workers), "good")
          /\ results[1].total = PerFileSum(Len(workers), "total")

\* Three workers have returned; their files hold 2, 1 and 2 nodes, of
\* which 1, 1 and 0 match.
C27_Witness ==
    /\ AllDone /\ Len(workers) = 3
    /\ workers[1].file = <<TRUE, FALSE>>
    /\ workers[2].file = <<TRUE>>
    /\ workers[3].file = <<FALSE, FALSE>>
    /\ results = <<[good |-> 2, total |-> 5]>>
    /\ mutex = <<>>

(***************************************************************************)
(* Properties of language identifiers (SpecLanguages)                      *)
(***************************************************************************)
\* The requests that resolved an identifier to a language.
Resolved ==
    {i \in 1..Len(request) :
        request[i].op = "language_from_str" /\ outcome[i].k = "Some"}

\* C28 as stated: every language language_from_str returns is among the
\* supported languages of the default analyzer, and analyze_language does
\* not refuse it as unsupported, whatever the source.
C28_ResolvedIsRegistered ==
    \A i \in Resolved :
        /\ outcome[i].of \in supported_languages(register_builtin_parsers)
        /\ \A walked \in Walked :
              analyze_language(register_builtin_parsers, outcome[i].of, walked).result.k
                 # "UnsupportedLanguage"

\* What the code gives: the language returned is registered and is not
\* refused, except Kotlin, which is returned for the identifier "kotlin"
\* in any case and with any padding, and for no other identifier.
C28_ResolvedIsRegisteredOrKotlin ==
    \A i \in Resolved :
        /\ outcome[i].of = "Kotlin" <=>
              to_lowercase(trim(request[i].value)) = get_name("Kotlin")
        /\ outcome[i].of # "Kotlin" =>
              /\ outcome[i].of \in supported_languages(register_builtin_parsers)
              /\ \A walked \in Walked :
                    analyze_language(register_builtin_parsers, outcome[i].of,
                                     walked).result.k # "UnsupportedLanguage"

\* " Go " was resolved to Go, and an analysis of Go returned a root space.
C28_Witness ==
    /\ Len(request) = 2
    /\ request[1].op = "language_from_str"
    /\ request[1].value = <<" ", "G", "o", " ">>
    /\ outcome[1].k = "Some" /\ outcome[1].of = "Go"
    /\ request[2].op = "analyze_language" /\ request[2].language = "Go"
    /\ outcome[2].k = "Ok"

====
